---- MODULE Spec2Model ----
(***************************************************************************)
(* A model of sql-batcher: the synchronous batcher (batcher.py), the       *)
(* asynchronous batcher with its savepoint and hook protocol               *)
(* (async_batcher.py, plugins.py), the retry layers (retry.py,             *)
(* retry_manager.py), the three hook pipelines (plugins.py,                *)
(* hooks/plugins.py, hook_manager.py), the two INSERT mergers              *)
(* (insert_merger.py, utils/insert_merger.py) with their streaming         *)
(* interface, the two batchers side by side, the savepoint scope and two   *)
(* tasks sharing one asynchronous batcher, hooks that rewrite the          *)
(* statements of a flush, and the `async with` block of the asynchronous   *)
(* batcher.                                                                *)
(*                                                                         *)
(* A statement is a record of what the code reads of its text:             *)
(*   tag     - the text's identity: a sequence of names (a merged INSERT   *)
(*             carries the names of the statements it was made from),      *)
(*   lead    - bytes of leading whitespace, trail - of trailing whitespace,*)
(*   core    - UTF-8 bytes of the stripped text without a final delimiter, *)
(*   delim   - whether the stripped text ends with the delimiter,          *)
(*   cols    - what detect_column_count parses out of it,                  *)
(*   table   - what InsertMerger._extract_table_name parses out of it,     *)
(*   columns - what InsertMerger._extract_columns parses out of it,        *)
(*   rows    - the VALUES tuples of the text, in order.                    *)
(* An Optional value is a sequence of length 0 or 1 (None, Some(x)); a     *)
(* float factor is a rational <<numerator, denominator>>.  Table names,    *)
(* column names and values are one byte long.                              *)
(***************************************************************************)
EXTENDS Integers, Sequences, FiniteSets, TLC

VARIABLES
    cfg,                \* SQLBatcher configuration (constructor arguments)
    current_batch,      \* SQLBatcher.current_batch
    current_size,       \* SQLBatcher.current_size
    column_count,       \* SQLBatcher.column_count
    adjustment_factor,  \* SQLBatcher.adjustment_factor
    call,               \* the last public call on the SQLBatcher and what it did
    retry,              \* one call through a retry layer (retry.py, retry_manager.py)
    firing,             \* one execute_hooks firing of one of the hook pipelines
    a_plugins,          \* AsyncSQLBatcher: number of registered plugins
    a_batch,            \* AsyncSQLBatcher.current_batch (the collector's _batch)
    a_size,             \* AsyncSQLBatcher.current_size
    a_list,             \* identity of the list object current_batch, id(current_batch)
    a_flush,            \* the flush in progress and its position
    a_out,              \* the last completed call on the AsyncSQLBatcher
    registry,           \* a plugin registry of one of the three managers
    merger,             \* one InsertMerger.merge call of one of the two mergers
    stream,             \* an InsertMerger used through add_statement and flush_table
    pair,               \* one statement list run through SQLBatcher and AsyncSQLBatcher
    scope,              \* one savepoint scope of an AsyncSQLBatcher and its adapter calls
    conc,               \* one AsyncSQLBatcher used by two tasks at the same time
    rw,                 \* one AsyncSQLBatcher.flush with hooks that rewrite statements
    ctx                 \* one `async with` block of the AsyncSQLBatcher of a_*

syncVars == <<cfg, current_batch, current_size, column_count, adjustment_factor, call>>

asyncVars == <<a_plugins, a_batch, a_size, a_list, a_flush, a_out>>

extVars == <<stream, pair, scope, conc, rw, ctx>>

vars == <<syncVars, retry, firing, asyncVars, registry, merger, extVars>>

----------------------------------------------------------------------------
(* Bounds of the model *)

MaxStatements == 3

MaxBatch == 2

MaxRetries == 3

MaxHooks == 3

MaxAsyncBatch == 3

MaxPlugins == 2

MaxMergeInput == 3

MaxStreamCalls == 4

NumListIds == 3

(* Program constants *)

PrescanLimit == 5

DelimiterBytes == 1

----------------------------------------------------------------------------
(* Statements *)

None == <<>>

Some(x) == <<x>>

Stmt(tag, lead, core, delim, trail, cols, table, columns, rows) ==
    [tag |-> <<tag>>, lead |-> lead, core |-> core, delim |-> delim,
     trail |-> trail, cols |-> cols, table |-> table, columns |-> columns,
     rows |-> rows]

\* "SELECT 1"
StmtSelect == Stmt("a", 0, 8, FALSE, 0, None, None, None, <<>>)

\* " INSERT INTO t VALUES (1,2,3,4); "
StmtWide ==
    Stmt("b", 1, 30, TRUE, 1, Some(4), Some("t"), None, << <<"1", "2", "3", "4">> >>)

\* "INSERT INTO u (a) VALUES (5) /* ... a long comment ... */;"
StmtBig == Stmt("d", 0, 60, TRUE, 0, Some(1), Some("u"), Some(<<"a">>), << <<"5">> >>)

\* The statements the callers of the synchronous batcher pass in.
StmtPool == { StmtSelect, StmtWide, StmtBig }

\* len(statement.encode("utf-8"))
ByteLen(s) == s.lead + s.core + (IF s.delim THEN DelimiterBytes ELSE 0) + s.trail

\* if not statement.strip().endswith(delimiter): statement = statement.strip() + delimiter
Normalize(s) ==
    IF s.delim THEN s
    ELSE [s EXCEPT !.lead = 0, !.trail = 0, !.delim = TRUE]

\* re-based column detection: the parse result is an attribute of the text
detect_column_count(s) == s.cols

RECURSIVE SumBytes(_)
SumBytes(seq) ==
    IF seq = <<>> THEN 0 ELSE ByteLen(Head(seq)) + SumBytes(Tail(seq))

RECURSIVE Flatten(_)
Flatten(seqs) ==
    IF seqs = <<>> THEN <<>> ELSE Head(seqs) \o Flatten(Tail(seqs))

SeqsUpTo(S, n) == UNION { [1..k -> S] : k \in 0..n }

----------------------------------------------------------------------------
(* Rationals *)

RatLe(p, q) == p[1] * q[2] <= q[1] * p[2]

RatMin(p, q) == IF RatLe(p, q) THEN p ELSE q

RatMax(p, q) == IF RatLe(p, q) THEN q ELSE p

RatIsOne(p) == p[1] = p[2]

----------------------------------------------------------------------------
(* SQLBatcher (batcher.py) *)

Configs ==
    [ max_bytes : {16},
      dry_run : BOOLEAN,
      auto_adjust_for_columns : BOOLEAN,
      reference_column_count : {2},
      min_adjustment_factor : { <<1, 2>> },
      max_adjustment_factor : { <<3, 2>> } ]

\* The batcher's mutable fields, and what one public call has done so far:
\*   payloads - what was handed to execute_callback, in call order, each with
\*              the adjusted ceiling in force when it was handed over,
\*   calls    - number of execute_callback invocations,
\*   count    - total_processed / the flush count,
\*   raised   - the callback raised and the error is propagating,
\*   adjAt    - per input statement of process_statements, the adjusted
\*              ceiling it was compared with.
BatcherState(batch, size, cc, af) ==
    [batch |-> batch, size |-> size, cc |-> cc, af |-> af,
     payloads |-> <<>>, calls |-> 0, count |-> 0, raised |-> FALSE, adjAt |-> <<>>]

update_adjustment_factor(c, st, s) ==
    IF ~c.auto_adjust_for_columns THEN st
    ELSE IF st.cc # None THEN st
    ELSE LET detected == detect_column_count(s) IN
         IF detected = None THEN st
         ELSE LET n == detected[1]
                  raw == <<c.reference_column_count, IF n > 1 THEN n ELSE 1>>
                  f == RatMax(c.min_adjustment_factor,
                              RatMin(c.max_adjustment_factor, raw))
              IN [st EXCEPT !.cc = detected, !.af = f]

get_adjusted_max_bytes(c, st) ==
    IF ~c.auto_adjust_for_columns \/ RatIsOne(st.af) THEN c.max_bytes
    ELSE (c.max_bytes * st.af[1]) \div st.af[2]

\* add_statement: the new state and the returned should_flush
add_statement_state(c, st, s) ==
    LET st1 == update_adjustment_factor(c, st, s)
        n == Normalize(s)
    IN [st1 EXCEPT !.batch = Append(st1.batch, n),
                   !.size = st1.size + ByteLen(n)]

add_statement_result(c, st, s) ==
    LET st2 == add_statement_state(c, st, s)
    IN st2.size >= get_adjusted_max_bytes(c, st2)

\* a reset that forgets the batch but not its running size
reset_state_keeps_size(st) == [st EXCEPT !.batch = <<>>]

\* a reset that forgets the statement list
reset_state_keeps_batch(st) == [st EXCEPT !.size = 0]

reset_state(st) == [st EXCEPT !.batch = <<>>, !.size = 0]

\* execute_callback(sql): invocation number failAt raises (0: none does)
invoke_callback(c, st, stmts, failAt) ==
    LET k == st.calls + 1 IN
    [st EXCEPT !.calls = k,
               !.payloads = Append(st.payloads,
                   [stmts |-> stmts, adj |-> get_adjusted_max_bytes(c, st)]),
               !.raised = (k = failAt)]

flush_state(c, st, failAt) ==
    LET count == Len(st.batch) IN
    IF count = 0 THEN st
    ELSE IF c.dry_run
         THEN [reset_state(st) EXCEPT !.count = st.count + count]
         ELSE LET st1 == invoke_callback(c, st, st.batch, failAt) IN
              IF st1.raised THEN st1
              ELSE [reset_state(st1) EXCEPT !.count = st1.count + count]

RECURSIVE prescan(_, _, _, _)
prescan(c, st, statements, i) ==
    IF i > Len(statements) \/ i > PrescanLimit THEN st
    ELSE LET st1 == update_adjustment_factor(c, st, statements[i]) IN
         IF st1.cc # None THEN st1 ELSE prescan(c, st1, statements, i + 1)

process_one(c, st, s, failAt) ==
    LET st1 == IF c.auto_adjust_for_columns /\ st.cc = None
               THEN update_adjustment_factor(c, st, s) ELSE st
        adjusted == get_adjusted_max_bytes(c, st1)
        st2 == [st1 EXCEPT !.adjAt = Append(st1.adjAt, adjusted)]
    IN IF ByteLen(s) > adjusted
       THEN LET st3 == flush_state(c, st2, failAt) IN
            IF st3.raised THEN st3
            ELSE IF c.dry_run THEN [st3 EXCEPT !.count = st3.count + 1]
            ELSE LET st4 == invoke_callback(c, st3, <<Normalize(s)>>, failAt) IN
                 IF st4.raised THEN st4
                 ELSE [st4 EXCEPT !.count = st4.count + 1]
       ELSE LET st3 == add_statement_state(c, st2, s) IN
            IF add_statement_result(c, st2, s)
            THEN flush_state(c, st3, failAt)
            ELSE st3

RECURSIVE process_loop(_, _, _, _, _)
process_loop(c, st, statements, i, failAt) ==
    IF i > Len(statements) THEN flush_state(c, st, failAt)
    ELSE LET st1 == process_one(c, st, statements[i], failAt) IN
         IF st1.raised THEN st1
         ELSE process_loop(c, st1, statements, i + 1, failAt)

process_statements(c, st, statements, failAt) ==
    LET st1 == IF c.auto_adjust_for_columns /\ Len(statements) > 0
               THEN prescan(c, st, statements, 1) ELSE st
    IN process_loop(c, st1, statements, 1, failAt)

Here == BatcherState(current_batch, current_size, column_count, adjustment_factor)

Commit(op, input, st, ret) ==
    /\ current_batch' = st.batch
    /\ current_size' = st.size
    /\ column_count' = st.cc
    /\ adjustment_factor' = st.af
    /\ call' = [op |-> op, input |-> input, pre_batch |-> current_batch,
                payloads |-> st.payloads, raised |-> st.raised,
                count |-> st.count, ret |-> ret, adjAt |-> st.adjAt]
    /\ UNCHANGED <<cfg, retry, firing, asyncVars, registry, merger, extVars>>

NoCall ==
    [op |-> "none", input |-> <<>>, pre_batch |-> <<>>, payloads |-> <<>>,
     raised |-> FALSE, count |-> 0, ret |-> FALSE, adjAt |-> <<>>]

SyncInit ==
    /\ cfg \in Configs
    /\ current_batch = <<>>
    /\ current_size = 0
    /\ column_count = None
    /\ adjustment_factor = <<1, 1>>
    /\ call = NoCall

SyncIdle ==
    /\ cfg = CHOOSE c \in Configs : TRUE
    /\ current_batch = <<>>
    /\ current_size = 0
    /\ column_count = None
    /\ adjustment_factor = <<1, 1>>
    /\ call = NoCall

\* The model follows one batcher through add_statement, flush and reset calls up
\* to and including one process_statements call.
SyncOpen == call.op # "process_statements"

SyncAddStatement ==
    /\ SyncOpen
    /\ Len(current_batch) < MaxBatch
    /\ \E s \in StmtPool :
       \E st \in {add_statement_state(cfg, Here, s)} :
          Commit("add_statement", <<s>>, st, add_statement_result(cfg, Here, s))

SyncFlush ==
    /\ SyncOpen
    /\ \E failAt \in 0..1 :
       \E st \in {flush_state(cfg, Here, failAt)} :
          Commit("flush", <<>>, st, FALSE)

SyncReset ==
    /\ SyncOpen
    /\ Commit("reset", <<>>, reset_state(Here), FALSE)

SyncProcessStatements ==
    /\ SyncOpen
    /\ \E statements \in SeqsUpTo(StmtPool, MaxStatements) :
       \E failAt \in 0..(MaxStatements + 1) :
       \E st \in {process_statements(cfg, Here, statements, failAt)} :
          Commit("process_statements", statements, st, FALSE)

SyncNext ==
    \/ SyncAddStatement
    \/ SyncFlush
    \/ SyncReset
    \/ SyncProcessStatements

----------------------------------------------------------------------------
(* The retry layers: with_retry (retry.py) and RetryManager.execute_with_retry
   (retry_manager.py), no timeout configured.  The operation fails on its first
   `fails` invocations and succeeds afterwards; invocation n raises the
   exception <<"error", n>> or returns <<"ok", n>>. *)

RetryImpls == {"with_retry", "RetryManager"}

\* range(max_retries): one attempt short
RetryAttemptsShort(max_retries) == max_retries

\* range(max_retries + 1)
RetryAttempts(max_retries) == max_retries + 1

RetryStart(impl, max_retries, fails) ==
    [impl |-> impl, max_retries |-> max_retries, fails |-> fails,
     attempt |-> 0, invocations |-> 0, last_exception |-> None,
     pc |-> IF RetryAttempts(max_retries) > 0 THEN "attempt" ELSE "exhausted",
     result |-> None, raised |-> None]

\* with_retry.wrapper, except branch: break on the last attempt, else sleep
with_retry_except(r, e) ==
    [r EXCEPT !.last_exception = Some(e),
              !.pc = IF r.attempt = r.max_retries THEN "exhausted" ELSE "sleep"]

\* RetryManager.execute_with_retry, except branch: sleep unless it was the last
execute_with_retry_except(r, e) ==
    [r EXCEPT !.last_exception = Some(e),
              !.pc = IF r.attempt < r.max_retries THEN "sleep"
                     ELSE IF r.attempt + 1 < RetryAttempts(r.max_retries)
                          THEN "attempt" ELSE "exhausted",
              !.attempt = IF r.attempt < r.max_retries THEN r.attempt
                          ELSE r.attempt + 1]

\* raise MaxRetriesExceededError(max_retries) from last_exception
with_retry_raise(r) ==
    [class |-> "MaxRetriesExceededError", cause |-> r.last_exception,
     args |-> <<>>]

\* raise RetryError(message, last_error), outside any except block
execute_with_retry_raise(r) ==
    [class |-> "RetryError", cause |-> None, args |-> r.last_exception]

RetryInit ==
    retry \in { RetryStart(i, m, f) :
                  i \in RetryImpls, m \in 0..MaxRetries, f \in 0..(MaxRetries + 1) }

RetryIdle == retry = RetryStart("with_retry", 0, 0)

\* one invocation of the operation
RetryInvoke ==
    /\ retry.pc = "attempt"
    /\ LET n == retry.invocations + 1
           r == [retry EXCEPT !.invocations = n]
       IN retry' =
            IF n > retry.fails
            THEN [r EXCEPT !.pc = "returned", !.result = Some(<<"ok", n>>)]
            ELSE IF retry.impl = "with_retry"
                 THEN with_retry_except(r, <<"error", n>>)
                 ELSE execute_with_retry_except(r, <<"error", n>>)
    /\ UNCHANGED <<syncVars, firing, asyncVars, registry, merger, extVars>>

\* time.sleep(delay) / await asyncio.sleep(retry_delay), then the next iteration
RetrySleep ==
    /\ retry.pc = "sleep"
    /\ retry' = [retry EXCEPT
                   !.attempt = retry.attempt + 1,
                   !.pc = IF retry.attempt + 1 < RetryAttempts(retry.max_retries)
                          THEN "attempt" ELSE "exhausted"]
    /\ UNCHANGED <<syncVars, firing, asyncVars, registry, merger, extVars>>

\* the loop is over: raise
RetryRaise ==
    /\ retry.pc = "exhausted"
    /\ retry' = [retry EXCEPT
                   !.pc = "raised",
                   !.raised = Some(IF retry.impl = "with_retry"
                                   THEN with_retry_raise(retry)
                                   ELSE execute_with_retry_raise(retry))]
    /\ UNCHANGED <<syncVars, firing, asyncVars, registry, merger, extVars>>

RetryNext ==
    \/ RetryInvoke
    \/ RetrySleep
    \/ RetryRaise

----------------------------------------------------------------------------
(* The hook pipelines: PluginManager (plugins.py, the one AsyncSQLBatcher uses),
   PluginManager (hooks/plugins.py) and HookManager (hook_manager.py).
   A firing runs the hooks registered at one hook point, in registration order;
   `raising` is the set of hooks that raise when they are run in this firing;
   a hook that raises raises the exception <<"hook", id>>. *)

HookTypes == {"PRE_BATCH", "POST_BATCH", "PRE_EXECUTE", "POST_EXECUTE", "ON_ERROR"}

HookImpls == {"plugins.PluginManager", "hooks.plugins.PluginManager", "HookManager"}

\* every pipeline logs the exception and goes on
on_hook_exception_isolated(impl, hook_type) == "continue"

\* what execute_hooks does with an exception of a hook:
\*   plugins.py: no try/except around the hook, the exception leaves execute_hooks;
\*   hooks/plugins.py: ON_ERROR hooks continue, any other hook point re-raises;
\*   hook_manager.py: printed, and the loop goes on.
on_hook_exception(impl, hook_type) ==
    IF impl = "plugins.PluginManager" THEN "raise"
    ELSE IF impl = "hooks.plugins.PluginManager"
         THEN (IF hook_type = "ON_ERROR" THEN "continue" ELSE "raise")
         ELSE "continue"

RECURSIVE run_hooks(_, _, _, _, _, _)
run_hooks(impl, hook_type, hooks, raising, i, ran) ==
    IF i > Len(hooks) THEN [ran |-> ran, error |-> None]
    ELSE LET h == hooks[i]
             ran1 == Append(ran, h)
         IN IF h \in raising /\ on_hook_exception(impl, hook_type) = "raise"
            THEN [ran |-> ran1, error |-> Some(<<"hook", h>>)]
            ELSE run_hooks(impl, hook_type, hooks, raising, i + 1, ran1)

\* execute_hooks: the hooks that were run, in order, and the exception that left
\* execute_hooks, if any
execute_hooks(impl, hook_type, hooks, raising) ==
    run_hooks(impl, hook_type, hooks, raising, 1, <<>>)

FiringStart(impl, hook_type, n, raising) ==
    [impl |-> impl, hook_type |-> hook_type, hooks |-> [i \in 1..n |-> i],
     raising |-> raising, done |-> FALSE, ran |-> <<>>, error |-> None]

HooksInit ==
    firing \in UNION { { FiringStart(impl, ht, n, r) :
                           impl \in HookImpls, ht \in HookTypes,
                           r \in SUBSET (1..n) } : n \in 0..MaxHooks }

HooksIdle == firing = FiringStart("HookManager", "PRE_BATCH", 0, {})

HooksExecute ==
    /\ ~firing.done
    /\ LET res == execute_hooks(firing.impl, firing.hook_type, firing.hooks,
                                firing.raising)
       IN firing' = [firing EXCEPT !.done = TRUE, !.ran = res.ran,
                                   !.error = res.error]
    /\ UNCHANGED <<syncVars, retry, asyncVars, registry, merger, extVars>>

HooksNext == HooksExecute

----------------------------------------------------------------------------
(* InsertMerger.merge (insert_merger.py), as AsyncSQLBatcher.flush uses it *)

RECURSIVE TokensLen(_)
TokensLen(tokens) ==
    IF tokens = <<>> THEN 0 ELSE Len(Head(tokens)) + TokensLen(Tail(tokens))

\* len(", ".join(tokens))
JoinLen(tokens) ==
    IF tokens = <<>> THEN 0 ELSE TokensLen(tokens) + 2 * (Len(tokens) - 1)

RECURSIVE RowsLen(_)
RowsLen(rows) ==
    IF rows = <<>> THEN 0
    ELSE 2 + JoinLen(Head(rows)) + (IF Len(rows) > 1 THEN 2 ELSE 0)
         + RowsLen(Tail(rows))

\* len(f"INSERT INTO {table}{cols_part} VALUES {', '.join(all_values)}")
InsertLen(columns, rows) ==
    12 + 1 + (IF columns = None THEN 0 ELSE 3 + JoinLen(columns[1])) + 8
    + RowsLen(rows)

\* "INSERT INTO t (a) VALUES (1)", "INSERT INTO t (a) VALUES (2)"
StmtT1 == Stmt("t1", 0, 28, FALSE, 0, Some(1), Some("t"), Some(<<"a">>), << <<"1">> >>)

StmtT2 == Stmt("t2", 0, 28, FALSE, 0, Some(1), Some("t"), Some(<<"a">>), << <<"2">> >>)

\* "INSERT INTO u VALUES (3)"
StmtU == Stmt("u3", 0, 24, FALSE, 0, Some(1), Some("u"), None, << <<"3">> >>)

\* The statements the callers of the asynchronous batcher pass in.
AsyncPool == { StmtSelect, StmtT1, StmtT2, StmtU }

\* stmt.strip().upper().startswith("INSERT") and a table name after INTO
is_insert(s) == s.table # None

not_insert(s) == ~is_insert(s)

_extract_values(s) == IF s.rows = <<>> THEN None ELSE Some(Head(s.rows))

_are_compatible(s1, s2) == s1.table = s2.table /\ s1.columns = s2.columns

\* the tables of the INSERT statements, in order of first appearance (dict order)
RECURSIVE table_keys(_, _)
table_keys(statements, seen) ==
    IF statements = <<>> THEN seen
    ELSE LET s == Head(statements) IN
         IF is_insert(s) /\ \A i \in 1..Len(seen) : seen[i] # s.table
         THEN table_keys(Tail(statements), Append(seen, s.table))
         ELSE table_keys(Tail(statements), seen)

RECURSIVE group_values(_)
group_values(group) ==
    IF group = <<>> THEN <<>>
    ELSE LET v == _extract_values(Head(group)) IN
         (IF v = None THEN <<>> ELSE <<v[1]>>) \o group_values(Tail(group))

RECURSIVE group_tags(_)
group_tags(group) ==
    IF group = <<>> THEN <<>> ELSE Head(group).tag \o group_tags(Tail(group))

\* a compatible group becomes one statement; a group of one stays as it is
merge_group(group) ==
    IF Len(group) = 1 THEN group[1]
    ELSE LET rows == group_values(group)
             first == group[1]
         IN [tag |-> group_tags(group), lead |-> 0,
             core |-> InsertLen(first.columns, rows), delim |-> FALSE,
             trail |-> 0, cols |-> first.cols, table |-> first.table,
             columns |-> first.columns, rows |-> rows]

RECURSIVE merge_table(_, _, _, _)
merge_table(table_stmts, i, compatible_group, result) ==
    IF i > Len(table_stmts) THEN Append(result, merge_group(compatible_group))
    ELSE LET stmt == table_stmts[i] IN
         IF _are_compatible(compatible_group[1], stmt)
         THEN merge_table(table_stmts, i + 1, Append(compatible_group, stmt), result)
         ELSE merge_table(table_stmts, i + 1, <<stmt>>,
                          Append(result, merge_group(compatible_group)))

merge(statements) ==
    IF statements = <<>> THEN <<>>
    ELSE LET keys == table_keys(statements, <<>>)
             group(k) == SelectSeq(statements, LAMBDA s : s.table = keys[k])
             merged == Flatten([k \in 1..Len(keys) |->
                                  merge_table(group(k), 2, <<group(k)[1]>>, <<>>)])
         IN SelectSeq(statements, not_insert) \o merged

----------------------------------------------------------------------------
(* AsyncSQLBatcher (async_batcher.py).  flush is followed await by await: every
   await of an adapter call, of the execution callback and of a hook firing is a
   step, and the adapter and the callback may raise at each of them.  Every
   registered plugin p (1..a_plugins) has one hook at every hook point.
   The exceptions are <<"callback", i>> (the callback on the i-th statement),
   <<"adapter", op>> and <<"hook", p>>. *)

Ev(e, name, type, id, stmts, error, ok) ==
    [e |-> e, name |-> name, type |-> type, id |-> id, stmts |-> stmts,
     error |-> error, ok |-> ok]

AdapterEv(op, name, ok) == Ev(op, name, "", 0, <<>>, None, ok)

ExecuteEv(i, stmt, ok) == Ev("execute", <<>>, "", i, <<stmt>>, None, ok)

HookEv(type, id, stmts, error, ok) == Ev("hook", <<>>, type, id, stmts, error, ok)

ResetEv == Ev("reset", <<>>, "", 0, <<>>, None, TRUE)

\* f"batch_{id(self.current_batch)}"
savepoint_name(list) == <<"batch", list>>

IdleFlush ==
    [pc |-> "idle", savepoint |-> <<>>, merged |-> <<>>, idx |-> 0, results |-> 0,
     err |-> None, failed |-> <<>>, log |-> <<>>, pre_batch |-> <<>>,
     after |-> <<>>]

NoAsyncCall ==
    [op |-> "none", status |-> "none", ret |-> 0, should_flush |-> FALSE,
     error |-> None, log |-> <<>>, pre_batch |-> <<>>, savepoint |-> <<>>]

\* the flush goes through its awaits in the order of the code: POST_BATCH first
next_step_post_batch_first(pc) ==
    IF pc = "create_savepoint" THEN "pre_batch"
    ELSE IF pc = "pre_batch" THEN "pre_execute"
    ELSE IF pc = "pre_execute" THEN "execute"
    ELSE IF pc = "execute" THEN "post_batch"
    ELSE IF pc = "post_batch" THEN "post_execute"
    ELSE IF pc = "post_execute" THEN "release"
    ELSE "idle"

\* the await that follows a step that did not raise
next_step(pc) ==
    IF pc = "create_savepoint" THEN "pre_batch"
    ELSE IF pc = "pre_batch" THEN "pre_execute"
    ELSE IF pc = "pre_execute" THEN "execute"
    ELSE IF pc = "execute" THEN "post_execute"
    ELSE IF pc = "post_execute" THEN "post_batch"
    ELSE IF pc = "post_batch" THEN "release"
    ELSE "idle"

\* the events of one hook firing of the batcher's PluginManager
fire(type, stmts, error, raising) ==
    LET hooks == [i \in 1..a_plugins |-> i]
        res == execute_hooks("plugins.PluginManager", type, hooks, raising)
    IN [events |-> [i \in 1..Len(res.ran) |->
                      HookEv(type, res.ran[i], stmts, error, res.ran[i] \notin raising)],
        error |-> res.error]

AsyncFrame == UNCHANGED <<syncVars, retry, firing, registry, merger, extVars>>

AsyncInit ==
    /\ a_plugins \in 0..MaxPlugins
    /\ a_batch = <<>>
    /\ a_size = 0
    /\ a_list = 1
    /\ a_flush = IdleFlush
    /\ a_out = NoAsyncCall

AsyncIdle ==
    /\ a_plugins = 0
    /\ a_batch = <<>>
    /\ a_size = 0
    /\ a_list = 1
    /\ a_flush = IdleFlush
    /\ a_out = NoAsyncCall

\* add_statement (auto_adjust_for_columns at its default, False: the adjustment
\* factor stays 1.0 and the ceiling is max_bytes)
AsyncAddStatement ==
    /\ a_flush.pc = "idle"
    /\ Len(a_batch) < MaxAsyncBatch
    /\ \E s \in AsyncPool, max_bytes \in {64} :
         LET n == Normalize(s) IN
         /\ a_batch' = Append(a_batch, n)
         /\ a_size' = a_size + ByteLen(n)
         /\ a_out' = [NoAsyncCall EXCEPT !.op = "add_statement",
                                         !.status = "returned",
                                         !.should_flush = (a_size + ByteLen(n) >= max_bytes),
                                         !.savepoint = a_out.savepoint]
    /\ UNCHANGED <<a_plugins, a_list, a_flush>>
    /\ AsyncFrame

\* flush is called: nothing to do on an empty batch, else the savepoint is named
\* (`after` is the savepoint name of the flush attempt before this one; a_out
\* carries the name of the last attempt through the calls that make none)
AsyncFlushCall ==
    /\ a_flush.pc = "idle"
    /\ IF a_batch = <<>>
       THEN /\ a_out' = [NoAsyncCall EXCEPT !.op = "flush", !.status = "returned",
                                            !.savepoint = a_out.savepoint]
            /\ UNCHANGED a_flush
       ELSE /\ a_flush' = [IdleFlush EXCEPT !.pc = "create_savepoint",
                              !.savepoint = savepoint_name(a_list),
                              !.pre_batch = a_batch,
                              !.after = a_out.savepoint]
            /\ a_out' = NoAsyncCall
    /\ UNCHANGED <<a_plugins, a_batch, a_size, a_list>>
    /\ AsyncFrame

\* an exception reaches the outer except clause of flush
ToOuterExcept(f, log, err) ==
    [f EXCEPT !.pc = "on_error_outer", !.log = log, !.err = Some(err)]

\* await self._adapter.create_savepoint(savepoint_name)
AsyncCreateSavepoint ==
    /\ a_flush.pc = "create_savepoint"
    /\ \E ok \in BOOLEAN :
         LET log == Append(a_flush.log, AdapterEv("create_savepoint", a_flush.savepoint, ok))
         IN a_flush' = IF ok
                       THEN [a_flush EXCEPT !.pc = next_step("create_savepoint"), !.log = log]
                       ELSE ToOuterExcept(a_flush, log, <<"adapter", "create_savepoint">>)
    /\ UNCHANGED <<a_plugins, a_batch, a_size, a_list, a_out>>
    /\ AsyncFrame

\* a hook phase of flush: the firing, then the next await or the outer except
HookPhase(pc, type, stmts, merged) ==
    /\ \E raising \in SUBSET (1..a_plugins) :
         LET res == fire(type, stmts, None, raising)
             log == a_flush.log \o res.events
         IN a_flush' = IF res.error = None
                       THEN [a_flush EXCEPT !.pc = next_step(pc), !.log = log,
                                            !.merged = merged, !.idx = 1]
                       ELSE ToOuterExcept(a_flush, log, res.error[1])
    /\ UNCHANGED <<a_plugins, a_batch, a_size, a_list, a_out>>
    /\ AsyncFrame

\* PRE_BATCH hooks on current_batch, then _merge_insert_statements(current_batch)
AsyncPreBatch ==
    /\ a_flush.pc = "pre_batch"
    /\ HookPhase("pre_batch", "PRE_BATCH", a_batch, merge(a_batch))

\* PRE_EXECUTE hooks on the merged statements
AsyncPreExecute ==
    /\ a_flush.pc = "pre_execute"
    /\ HookPhase("pre_execute", "PRE_EXECUTE", a_flush.merged, a_flush.merged)

\* result = await execute_callback(statement), in the order of merged_statements
AsyncExecute ==
    /\ a_flush.pc = "execute"
    /\ \E ok \in BOOLEAN :
         LET i == a_flush.idx
             log == Append(a_flush.log, ExecuteEv(i, a_flush.merged[i], ok))
         IN a_flush' =
              IF ok
              THEN [a_flush EXCEPT !.log = log, !.results = a_flush.results + 1,
                                   !.idx = i + 1,
                                   !.pc = IF i < Len(a_flush.merged) THEN "execute"
                                          ELSE next_step("execute")]
              ELSE [a_flush EXCEPT !.log = log, !.pc = "rollback",
                                   !.err = Some(<<"callback", i>>),
                                   !.failed = <<a_flush.merged[i]>>]
    /\ UNCHANGED <<a_plugins, a_batch, a_size, a_list, a_out>>
    /\ AsyncFrame

\* except Exception as e: await self._adapter.rollback_to_savepoint(savepoint_name)
AsyncRollback ==
    /\ a_flush.pc = "rollback"
    /\ \E ok \in BOOLEAN :
         LET log == Append(a_flush.log,
                           AdapterEv("rollback_to_savepoint", a_flush.savepoint, ok))
         IN a_flush' = IF ok
                       THEN [a_flush EXCEPT !.pc = "on_error_inner", !.log = log]
                       ELSE ToOuterExcept(a_flush, log, <<"adapter", "rollback_to_savepoint">>)
    /\ UNCHANGED <<a_plugins, a_batch, a_size, a_list, a_out>>
    /\ AsyncFrame

\* ON_ERROR hooks on [statement] with e, then `raise`: into the outer except
AsyncOnErrorInner ==
    /\ a_flush.pc = "on_error_inner"
    /\ \E raising \in SUBSET (1..a_plugins) :
         LET res == fire("ON_ERROR", a_flush.failed, a_flush.err, raising)
             log == a_flush.log \o res.events
         IN a_flush' = ToOuterExcept(a_flush, log,
                          IF res.error = None THEN a_flush.err[1] ELSE res.error[1])
    /\ UNCHANGED <<a_plugins, a_batch, a_size, a_list, a_out>>
    /\ AsyncFrame

\* POST_EXECUTE hooks on the merged statements
AsyncPostExecute ==
    /\ a_flush.pc = "post_execute"
    /\ HookPhase("post_execute", "POST_EXECUTE", a_flush.merged, a_flush.merged)

\* POST_BATCH hooks on the merged statements
AsyncPostBatch ==
    /\ a_flush.pc = "post_batch"
    /\ HookPhase("post_batch", "POST_BATCH", a_flush.merged, a_flush.merged)

\* await release_savepoint(savepoint_name); self.reset(); return len(results)
AsyncRelease ==
    /\ a_flush.pc = "release"
    /\ \E ok \in BOOLEAN :
         LET log == Append(a_flush.log,
                           AdapterEv("release_savepoint", a_flush.savepoint, ok))
         IN IF ok
            THEN /\ \E new \in (1..NumListIds) \ {a_list} : a_list' = new
                 /\ a_batch' = <<>>
                 /\ a_size' = 0
                 /\ a_flush' = IdleFlush
                 /\ a_out' = [NoAsyncCall EXCEPT !.op = "flush", !.status = "returned",
                                 !.ret = a_flush.results,
                                 !.log = Append(log, ResetEv),
                                 !.pre_batch = a_flush.pre_batch,
                                 !.savepoint = a_flush.savepoint]
            ELSE /\ a_flush' = ToOuterExcept(a_flush, log, <<"adapter", "release_savepoint">>)
                 /\ UNCHANGED <<a_batch, a_size, a_list, a_out>>
    /\ UNCHANGED a_plugins
    /\ AsyncFrame

\* except Exception as e: ON_ERROR hooks on current_batch with e, then `raise`
AsyncOnErrorOuter ==
    /\ a_flush.pc = "on_error_outer"
    /\ \E raising \in SUBSET (1..a_plugins) :
         LET res == fire("ON_ERROR", a_batch, a_flush.err, raising)
             log == a_flush.log \o res.events
         IN /\ a_out' = [NoAsyncCall EXCEPT !.op = "flush", !.status = "raised",
                            !.error = IF res.error = None THEN a_flush.err ELSE res.error,
                            !.log = log,
                            !.pre_batch = a_flush.pre_batch,
                            !.savepoint = a_flush.savepoint]
            /\ a_flush' = IdleFlush
    /\ UNCHANGED <<a_plugins, a_batch, a_size, a_list>>
    /\ AsyncFrame

AsyncNext ==
    \/ AsyncAddStatement
    \/ AsyncFlushCall
    \/ AsyncCreateSavepoint
    \/ AsyncPreBatch
    \/ AsyncPreExecute
    \/ AsyncExecute
    \/ AsyncRollback
    \/ AsyncOnErrorInner
    \/ AsyncPostExecute
    \/ AsyncPostBatch
    \/ AsyncRelease
    \/ AsyncOnErrorOuter

----------------------------------------------------------------------------
(* Plugin registries: plugins.PluginManager, hooks.plugins.PluginManager and
   HookManager.  A plugin is an object with a name and, per hook point, the list
   of callables it registered; `plugins` is the dict _plugins in insertion
   order, `hooks` the dict _hooks (plugins.PluginManager keeps none), `history`
   the registered plugins in the order of their successful register_plugin
   calls, and `last` the last call with the state before it. *)

PluginObj(id, name, pre_batch, on_error) ==
    [id |-> id, name |-> name,
     hooks |-> [t \in HookTypes |-> IF t = "PRE_BATCH" THEN pre_batch
                                    ELSE IF t = "ON_ERROR" THEN on_error
                                    ELSE <<>>]]

\* A and C carry the same name; A and B registered the same callable h1
PluginPool ==
    { PluginObj("A", "p", <<"h1">>, <<"e1">>),
      PluginObj("B", "q", <<"h2", "h1">>, <<>>),
      PluginObj("C", "p", <<"h3">>, <<"e3">>),
      PluginObj("D", "r", <<"h4">>, <<"e4">>) }

PluginNames == { pl.name : pl \in PluginPool }

NoHooks == [t \in HookTypes |-> <<>>]

\* the hooks of the plugins of a list, plugin after plugin
concat_hooks(plugins, t) == Flatten([i \in 1..Len(plugins) |-> plugins[i].hooks[t]])

is_registered(plugins, name) == \E i \in 1..Len(plugins) : plugins[i].name = name

\* self._plugins[name] = plugin: a present key keeps its place in the dict
dict_set(plugins, plugin) ==
    IF is_registered(plugins, plugin.name)
    THEN [i \in 1..Len(plugins) |-> IF plugins[i].name = plugin.name THEN plugin
                                    ELSE plugins[i]]
    ELSE Append(plugins, plugin)

\* del self._plugins[name] / self._plugins.pop(name, None)
dict_del(plugins, name) == SelectSeq(plugins, LAMBDA pl : pl.name # name)

dict_get(plugins, name) ==
    plugins[CHOOSE i \in 1..Len(plugins) : plugins[i].name = name]

\* hooks/plugins.py _update_hooks: the registry is rebuilt from the plugins
_update_hooks(plugins) == [t \in HookTypes |-> concat_hooks(plugins, t)]

\* hook_manager.py: [hook for hook in self._hooks[t] if hook not in plugin_hooks[t]]
remove_by_membership(hooks, plugin) ==
    [t \in HookTypes |->
        SelectSeq(hooks[t], LAMBDA h : \A i \in 1..Len(plugin.hooks[t]) :
                                           plugin.hooks[t][i] # h)]

Outcome(plugins, hooks, result) ==
    [plugins |-> plugins, hooks |-> hooks, result |-> result]

hook_manager_unregister(plugins, hooks, name) ==
    IF ~is_registered(plugins, name) THEN Outcome(plugins, hooks, "returned")
    ELSE Outcome(dict_del(plugins, name),
                 remove_by_membership(hooks, dict_get(plugins, name)), "returned")

register_plugin(impl, plugins, hooks, plugin) ==
    IF impl = "plugins.PluginManager"
    THEN Outcome(dict_set(plugins, plugin), hooks, "returned")
    ELSE IF impl = "hooks.plugins.PluginManager"
    THEN IF is_registered(plugins, plugin.name)
         THEN Outcome(plugins, hooks, "raised")
         ELSE Outcome(dict_set(plugins, plugin),
                      _update_hooks(dict_set(plugins, plugin)), "returned")
    ELSE LET un == hook_manager_unregister(plugins, hooks, plugin.name)
         IN Outcome(dict_set(un.plugins, plugin),
                    [t \in HookTypes |-> un.hooks[t] \o plugin.hooks[t]], "returned")

unregister_plugin(impl, plugins, hooks, name) ==
    IF impl = "plugins.PluginManager"
    THEN Outcome(dict_del(plugins, name), hooks, "returned")
    ELSE IF impl = "hooks.plugins.PluginManager"
    THEN IF ~is_registered(plugins, name)
         THEN Outcome(plugins, hooks, "raised")
         ELSE Outcome(dict_del(plugins, name),
                      _update_hooks(dict_del(plugins, name)), "returned")
    ELSE hook_manager_unregister(plugins, hooks, name)

\* the hooks execute_hooks runs at hook point t
hooks_fired(reg, t) ==
    IF reg.impl = "plugins.PluginManager" THEN concat_hooks(reg.plugins, t)
    ELSE reg.hooks[t]

NoRegistryCall ==
    [op |-> "none", plugin |-> <<>>, name |-> "", result |-> "none",
     plugins |-> <<>>, fired |-> NoHooks]

RegistryStart(impl) ==
    [impl |-> impl, plugins |-> <<>>, hooks |-> NoHooks, history |-> <<>>,
     last |-> NoRegistryCall]

RegistryInit == registry \in { RegistryStart(impl) : impl \in HookImpls }

RegistryIdle == registry = RegistryStart("HookManager")

RegistryFrame == UNCHANGED <<syncVars, retry, firing, asyncVars, merger, extVars>>

RegistryCall(op, plugin, name, out) ==
    [op |-> op, plugin |-> plugin, name |-> name, result |-> out.result,
     plugins |-> registry.plugins,
     fired |-> [t \in HookTypes |-> hooks_fired(registry, t)]]

RegisterPlugin ==
    /\ \E plugin \in PluginPool :
         LET out == register_plugin(registry.impl, registry.plugins,
                                    registry.hooks, plugin)
         IN registry' =
              [registry EXCEPT
                 !.plugins = out.plugins, !.hooks = out.hooks,
                 !.history = IF out.result = "returned"
                             THEN Append(dict_del(registry.history, plugin.name), plugin)
                             ELSE registry.history,
                 !.last = RegistryCall("register_plugin", <<plugin>>, plugin.name, out)]
    /\ RegistryFrame

UnregisterPlugin ==
    /\ \E name \in PluginNames :
         LET out == unregister_plugin(registry.impl, registry.plugins,
                                      registry.hooks, name)
         IN registry' =
              [registry EXCEPT
                 !.plugins = out.plugins, !.hooks = out.hooks,
                 !.history = IF out.result = "returned"
                             THEN dict_del(registry.history, name)
                             ELSE registry.history,
                 !.last = RegistryCall("unregister_plugin", <<>>, name, out)]
    /\ RegistryFrame

RegistryNext ==
    \/ RegisterPlugin
    \/ UnregisterPlugin

----------------------------------------------------------------------------
(* The two batch mergers: InsertMerger.merge of insert_merger.py (the operator
   merge above, on statements as that module reads them) and InsertMerger.merge
   of utils/insert_merger.py.  An INSERT text is
       INSERT INTO <table> [(<c1>,<c2>)] VALUES (<v1>,<v2>)[, (<v1>,<v2>)]
   and is held as its table name, the pieces of its column list between the
   commas (a piece keeps the blank that follows the comma), and the pieces of
   each VALUES tuple.  The form of a text says what else it is: "insert" (as
   above), "other" (not an INSERT: "SELECT 1"), "unbalanced" (as above without
   the final parenthesis), "no_values" (as above without the VALUES clause). *)

Text(tag, form, table, cols, rows) ==
    [tag |-> <<tag>>, form |-> form, table |-> table, cols |-> cols, rows |-> rows]

InsertText(tag, table, cols, rows) == Text(tag, "insert", table, cols, rows)

MergePool ==
    { InsertText("i1", "t", Some(<<"a">>), << <<"1">> >>),
      InsertText("i2", "t", Some(<<"a">>), << <<"2">> >>),
      InsertText("i3", "u", None, << <<"3">> >>),
      InsertText("i4", "u", None, << <<"4">> >>),
      InsertText("i5", "t", Some(<<"a">>), << <<"5">>, <<"6">> >>),
      InsertText("i6", "t", Some(<<"a", " b">>), << <<"1", " 2">> >>),
      InsertText("i7", "t", Some(<<"b", " a">>), << <<"3", " 4">> >>),
      InsertText("i8", "t", Some(<<"A", " B">>), << <<"7", " 8">> >>) }

\* "INSERT INTO t (a,b) VALUES (1,2)", "INSERT INTO t (b,a) VALUES (3,4)"
OrderPool ==
    { InsertText("i1", "t", Some(<<"a">>), << <<"1">> >>),
      InsertText("i2", "t", Some(<<"a">>), << <<"2">> >>),
      InsertText("i9", "t", Some(<<"a", "b">>), << <<"1", "2">> >>),
      InsertText("i10", "t", Some(<<"b", "a">>), << <<"3", "4">> >>) }

\* "SELECT 1", "SELECT 2" among INSERTs
MixedPool ==
    { InsertText("i1", "t", Some(<<"a">>), << <<"1">> >>),
      InsertText("i2", "t", Some(<<"a">>), << <<"2">> >>),
      InsertText("i3", "u", None, << <<"3">> >>),
      Text("s1", "other", "", None, <<>>),
      Text("s2", "other", "", None, <<>>) }

\* "INSERT INTO t (a) VALUES (1", "INSERT INTO t (a)",
\* "INSERT INTO t (a,a) VALUES (1,2)", "INSERT INTO t (a b) VALUES (1)",
\* "INSERT INTO t () VALUES (1)", "INSERT INTO t (a) VALUES ()"
MalformedPool ==
    { InsertText("i1", "t", Some(<<"a">>), << <<"1">> >>),
      InsertText("i2", "t", Some(<<"a">>), << <<"2">> >>),
      Text("m1", "unbalanced", "t", Some(<<"a">>), << <<"1">> >>),
      Text("m2", "no_values", "t", Some(<<"a">>), <<>>),
      InsertText("m3", "t", Some(<<"a", "a">>), << <<"1", "2">> >>),
      InsertText("m4", "t", Some(<<"a b">>), << <<"1">> >>),
      InsertText("m5", "t", Some(<<"">>), << <<"1">> >>),
      InsertText("m6", "t", Some(<<"a">>), << <<"">> >>) }

MergePools == { MergePool, OrderPool, MixedPool, MalformedPool }

\* str.strip() of a piece
Stripped ==
    (" a" :> "a") @@ (" b" :> "b") @@ (" B" :> "B")
    @@ (" 2" :> "2") @@ (" 4" :> "4") @@ (" 8" :> "8")

strip(piece) == IF piece \in DOMAIN Stripped THEN Stripped[piece] ELSE piece

\* str.lower() of a piece
Lowered == ("A" :> "a") @@ ("B" :> "b") @@ (" B" :> " b")

lower(piece) == IF piece \in DOMAIN Lowered THEN Lowered[piece] ELSE piece

strip_all(pieces) == [i \in 1..Len(pieces) |-> strip(pieces[i])]

RECURSIVE PiecesLen(_)
PiecesLen(pieces) ==
    IF pieces = <<>> THEN 0 ELSE Len(Head(pieces)) + PiecesLen(Tail(pieces))

\* len("(" + ",".join(pieces) + ")")
ListLen(pieces) == 2 + PiecesLen(pieces) + (Len(pieces) - 1)

RECURSIVE TuplesLen(_)
TuplesLen(rows) ==
    IF rows = <<>> THEN 0
    ELSE ListLen(Head(rows)) + (IF Len(rows) > 1 THEN 2 ELSE 0) + TuplesLen(Tail(rows))

\* a piece with a blank between two names
Blanked == {"a b"}

\* len(f"INSERT INTO {table} {columns} VALUES {tuples}"); len("SELECT 1")
TextLen(ins) ==
    IF ins.form = "other" THEN 8
    ELSE 12 + Len(ins.table)
         + (IF ins.cols = None THEN 0 ELSE 1 + ListLen(ins.cols[1]))
         + (IF ins.form = "no_values" THEN 0 ELSE 8 + TuplesLen(ins.rows))
         - (IF ins.form = "unbalanced" THEN 1 ELSE 0)

\* the statement as insert_merger.py reads it: _extract_table_name, the stripped
\* pieces of _extract_columns (None without a VALUES clause), the stripped pieces
\* of every tuple that _extract_values can close
AsStmt(ins) ==
    [tag |-> ins.tag, lead |-> 0, core |-> TextLen(ins), delim |-> FALSE,
     trail |-> 0,
     cols |-> IF ins.form = "other" THEN None
              ELSE IF ins.form = "insert" THEN Some(Len(Head(ins.rows)))
              ELSE IF ins.cols = None THEN None ELSE Some(Len(ins.cols[1])),
     table |-> IF ins.form = "other" THEN None ELSE Some(ins.table),
     columns |-> IF ins.cols = None \/ ins.form \in {"other", "no_values"} THEN None
                 ELSE Some(strip_all(ins.cols[1])),
     rows |-> IF ins.form = "insert"
              THEN [r \in 1..Len(ins.rows) |-> strip_all(ins.rows[r])]
              ELSE <<>>]

\* utils: the regular expression that looks for the end of the table name also
\* takes the word VALUES, so for a statement without a column list the first
\* VALUES tuple is returned as its column list
utils_extract_columns(ins) ==
    IF ins.cols = None THEN Head(ins.rows) ELSE ins.cols[1]

\* utils: the text from VALUES up to the first closing parenthesis
utils_extract_values(ins) == Head(ins.rows)

\* utils: [c.strip('`"\'').lower() for c in cols.strip('()').split(',')]
utils_column_names(ins) ==
    LET pieces == utils_extract_columns(ins)
    IN [i \in 1..Len(pieces) |-> lower(pieces[i])]

Range(seq) == { seq[i] : i \in 1..Len(seq) }

utils_are_compatible(s1, s2) ==
    /\ lower(s1.table) = lower(s2.table)
    /\ Len(utils_column_names(s1)) = Len(utils_column_names(s2))
    /\ Range(utils_column_names(s1)) = Range(utils_column_names(s2))

\* utils _validate_sql: an INSERT, balanced parentheses, a VALUES clause, and of
\* the column names: no empty name, no blank inside, no duplicate
utils_validate(ins) ==
    /\ ins.form = "insert"
    /\ LET names == [i \in 1..Len(utils_extract_columns(ins)) |->
                        lower(strip(utils_extract_columns(ins)[i]))]
       IN /\ \A i \in 1..Len(names) : names[i] # "" /\ names[i] \notin Blanked
          /\ \A i, j \in 1..Len(names) : names[i] = names[j] => i = j

\* utils: table_groups, in the order in which the groups were opened; a statement
\* joins the first group whose first statement it is compatible with
RECURSIVE utils_group(_, _)
utils_group(statements, groups) ==
    IF statements = <<>> THEN groups
    ELSE LET stmt == Head(statements)
             fits == { g \in 1..Len(groups) : utils_are_compatible(groups[g][1], stmt) }
         IN IF fits = {}
            THEN utils_group(Tail(statements), Append(groups, <<stmt>>))
            ELSE LET g == CHOOSE g \in fits : \A h \in fits : g <= h
                 IN utils_group(Tail(statements),
                                [groups EXCEPT ![g] = Append(groups[g], stmt)])

\* utils: table and columns of the first statement, the first tuple of each
utils_merged(stmts) ==
    [tag |-> group_tags(stmts), form |-> "insert", table |-> stmts[1].table,
     cols |-> Some(utils_extract_columns(stmts[1])),
     rows |-> [i \in 1..Len(stmts) |-> utils_extract_values(stmts[i])]]

RECURSIVE utils_merge(_, _)
RECURSIVE utils_merge_groups(_, _, _)
utils_merge_groups(groups, max_bytes, result) ==
    IF groups = <<>> THEN result
    ELSE LET stmts == Head(groups)
             merged == utils_merged(stmts)
             mid == Len(stmts) \div 2
             out == IF TextLen(merged) > max_bytes
                    THEN IF Len(stmts) = 1 THEN <<stmts[1]>>
                         ELSE utils_merge(SubSeq(stmts, 1, mid), max_bytes).out
                              \o utils_merge(SubSeq(stmts, mid + 1, Len(stmts)),
                                             max_bytes).out
                    ELSE <<merged>>
         IN utils_merge_groups(Tail(groups), max_bytes, result \o out)

utils_merge(statements, max_bytes) ==
    IF statements = <<>> \/ \E i \in 1..Len(statements) : ~utils_validate(statements[i])
    THEN [raised |-> TRUE, out |-> <<>>]
    ELSE [raised |-> FALSE,
          out |-> utils_merge_groups(utils_group(statements, <<>>), max_bytes, <<>>)]

MergerImpls == {"insert_merger", "utils.insert_merger"}

\* max_bytes of the merger: below one statement, between one and two, not binding
MergeLimits == {20, 36, 900}

\* what a returned statement says: the texts it was made from, whether it is an
\* INSERT, table, column list, tuples, length
ViewOfStmt(s) ==
    [tag |-> s.tag, insert |-> is_insert(s),
     table |-> IF s.table = None THEN "" ELSE s.table[1],
     columns |-> s.columns, rows |-> s.rows, len |-> ByteLen(s)]

ViewOfText(ins) ==
    [tag |-> ins.tag, insert |-> ins.form # "other", table |-> ins.table,
     columns |-> IF ins.cols = None THEN None ELSE Some(strip_all(ins.cols[1])),
     rows |-> [r \in 1..Len(ins.rows) |-> strip_all(ins.rows[r])],
     len |-> TextLen(ins)]

\* InsertMerger(max_bytes).merge(statements) of either module: whether it raised,
\* the statements returned, and what they say
merger_merge(impl, statements, max_bytes) ==
    IF impl = "insert_merger"
    THEN LET out == merge(statements)
         IN [raised |-> FALSE, out |-> out,
             view |-> [i \in 1..Len(out) |-> ViewOfStmt(out[i])]]
    ELSE LET res == utils_merge(statements, max_bytes)
         IN [raised |-> res.raised, out |-> res.out,
             view |-> [i \in 1..Len(res.out) |-> ViewOfText(res.out[i])]]

merger_are_compatible(impl, s1, s2) ==
    IF impl = "insert_merger" THEN _are_compatible(AsStmt(s1), AsStmt(s2))
    ELSE utils_are_compatible(s1, s2)

\* the input as the merger of this module takes it
merger_input(impl, texts) ==
    IF impl = "insert_merger" THEN [i \in 1..Len(texts) |-> AsStmt(texts[i])]
    ELSE texts

MergerStart(impl, texts, max_bytes) ==
    [impl |-> impl, statements |-> texts, max_bytes |-> max_bytes, pc |-> "start",
     raised |-> FALSE, out |-> <<>>, view |-> <<>>, compatible |-> None,
     again_raised |-> FALSE, again |-> <<>>]

MergerInit ==
    merger \in { MergerStart(impl, texts, max_bytes) :
                   impl \in MergerImpls,
                   texts \in UNION { SeqsUpTo(pool, MaxMergeInput) : pool \in MergePools },
                   max_bytes \in MergeLimits }

MergerIdle == merger = MergerStart("insert_merger", <<>>, 900)

MergerFrame == UNCHANGED <<syncVars, retry, firing, asyncVars, registry, extVars>>

\* merge(statements); for the first two statements, when they are well-formed
\* INSERTs, what _are_compatible says
MergerMerge ==
    /\ merger.pc = "start"
    /\ LET res == merger_merge(merger.impl,
                               merger_input(merger.impl, merger.statements),
                               merger.max_bytes)
       IN merger' =
            [merger EXCEPT
               !.pc = "merged", !.raised = res.raised, !.out = res.out,
               !.view = res.view,
               !.compatible =
                   IF \/ Len(merger.statements) < 2
                      \/ \E i \in 1..2 : merger.statements[i].form # "insert"
                   THEN None
                   ELSE Some(merger_are_compatible(merger.impl,
                                merger.statements[1], merger.statements[2]))]
    /\ MergerFrame

\* merge(merge(statements))
MergerMergeAgain ==
    /\ merger.pc = "merged"
    /\ ~merger.raised
    /\ LET res == merger_merge(merger.impl, merger.out, merger.max_bytes)
       IN merger' = [merger EXCEPT !.pc = "merged_again",
                                   !.again_raised = res.raised,
                                   !.again = res.view]
    /\ MergerFrame

MergerNext ==
    \/ MergerMerge
    \/ MergerMergeAgain

----------------------------------------------------------------------------
(* The streaming interface of the two mergers: add_statement, flush_table and
   flush_all over table_maps.  table_maps is held in dict order as a sequence
   of entries [table, columns, items]; the items of insert_merger.py are the
   formatted first tuples of the statements added (with the text they came
   from), the items of utils/insert_merger.py are the statements themselves.
   `last` is the last call with table_maps as it was before it, `history` all
   calls in order. *)

StreamPool ==
    { InsertText("i1", "t", Some(<<"a">>), << <<"1">> >>),
      InsertText("i2", "t", Some(<<"a">>), << <<"2">> >>),
      InsertText("i3", "u", None, << <<"3">> >>),
      InsertText("i6", "t", Some(<<"a", " b">>), << <<"1", " 2">> >>),
      Text("s1", "other", "", None, <<>>) }

StreamTables == {"t", "u"}

\* max_bytes of the streaming merger: reached by a third statement, not binding
StreamLimits == {60, 900}

\* the position of a table in table_maps, 0 when it has no entry
entry_of(maps, table) ==
    IF \E k \in 1..Len(maps) : maps[k].table = table
    THEN CHOOSE k \in 1..Len(maps) : maps[k].table = table
    ELSE 0

Returned(maps, ret) == [maps |-> maps, ret |-> ret, raised |-> FALSE]

\* f"INSERT INTO {table_name}{cols_part} VALUES {values_str}" over stored values
values_statement(table, columns, items) ==
    LET rows == [k \in 1..Len(items) |-> items[k].row] IN
    [tag |-> Flatten([k \in 1..Len(items) |-> items[k].tag]), lead |-> 0,
     core |-> InsertLen(columns, rows), delim |-> FALSE, trail |-> 0,
     cols |-> Some(Len(rows[1])), table |-> Some(table), columns |-> columns,
     rows |-> rows]

\* insert_merger.py add_statement: the statement comes back when it is no INSERT,
\* has no values, or its column list differs from the one stored for its table
stream_add_statement(maps, max_bytes, s) ==
    IF not_insert(s) \/ _extract_values(s) = None
    THEN Returned(maps, Some(<<s>>))
    ELSE LET table == s.table[1]
             item == [tag |-> s.tag, row |-> _extract_values(s)[1]]
             known == entry_of(maps, table)
         IN IF known # 0 /\ maps[known].columns # s.columns
            THEN Returned(maps, Some(<<s>>))
            ELSE LET maps1 == IF known = 0
                              THEN Append(maps, [table |-> table, columns |-> s.columns,
                                                 items |-> <<>>])
                              ELSE maps
                     k == entry_of(maps1, table)
                     items == maps1[k].items
                     merged == values_statement(table, s.columns, Append(items, item))
                 IN IF /\ items # <<>>
                       /\ Len(items) >= 2
                       /\ 10 * ByteLen(merged) > 6 * max_bytes
                    THEN Returned([maps1 EXCEPT ![k].items = <<item>>],
                                  Some(<<values_statement(table, s.columns, items)>>))
                    ELSE Returned([maps1 EXCEPT ![k].items = Append(items, item)], None)

\* a flush_table that returns the merged statement and keeps the values
stream_flush_table_keeps_values(maps, table_name) ==
    LET k == entry_of(maps, table_name) IN
    IF k = 0 THEN Returned(maps, None)
    ELSE IF maps[k].items = <<>> THEN Returned(maps, None)
    ELSE Returned(maps,
                  Some(<<values_statement(table_name, maps[k].columns, maps[k].items)>>))

\* insert_merger.py flush_table: the entry stays in table_maps, without values
stream_flush_table(maps, table_name) ==
    LET k == entry_of(maps, table_name) IN
    IF k = 0 THEN Returned(maps, None)
    ELSE IF maps[k].items = <<>> THEN Returned(maps, None)
    ELSE Returned([maps EXCEPT ![k].items = <<>>],
                  Some(<<values_statement(table_name, maps[k].columns, maps[k].items)>>))

RECURSIVE stream_flush_all(_, _, _)
stream_flush_all(maps, k, result) ==
    IF k > Len(maps) THEN Returned(maps, Some(result))
    ELSE LET res == stream_flush_table(maps, maps[k].table)
         IN stream_flush_all(res.maps, k + 1,
                             result \o (IF res.ret = None THEN <<>> ELSE res.ret[1]))

RECURSIVE TextsLen(_)
TextsLen(texts) ==
    IF texts = <<>> THEN 0 ELSE TextLen(Head(texts)) + TextsLen(Tail(texts))

\* utils flush_table: merge of the statements of the entry, which stays
utils_flush_table(maps, max_bytes, table) ==
    LET k == entry_of(maps, table) IN
    IF k = 0 THEN Returned(maps, Some(<<>>))
    ELSE IF maps[k].items = <<>> THEN Returned(maps, Some(<<>>))
    ELSE Returned([maps EXCEPT ![k].items = <<>>],
                  Some(utils_merge(maps[k].items, max_bytes).out))

\* utils add_statement: an incompatible statement flushes the entry of its table
\* and becomes its only statement
utils_add_statement(maps, max_bytes, sql) ==
    IF ~utils_validate(sql) THEN [maps |-> maps, ret |-> None, raised |-> TRUE]
    ELSE LET maps1 == IF entry_of(maps, sql.table) = 0
                      THEN Append(maps, [table |-> sql.table,
                                         columns |-> Some(utils_extract_columns(sql)),
                                         items |-> <<>>])
                      ELSE maps
             k == entry_of(maps1, sql.table)
             items == maps1[k].items
         IN IF items # <<>> /\ ~utils_are_compatible(items[1], sql)
            THEN LET flushed == utils_flush_table(maps1, max_bytes, sql.table)
                 IN Returned([flushed.maps EXCEPT
                                 ![k].items = <<sql>>,
                                 ![k].columns = Some(utils_extract_columns(sql))],
                             flushed.ret)
            ELSE LET maps2 == [maps1 EXCEPT ![k].items = Append(items, sql)]
                 IN IF TextsLen(maps2[k].items) > max_bytes
                    THEN utils_flush_table(maps2, max_bytes, sql.table)
                    ELSE Returned(maps2, None)

\* utils flush_all: the non-empty results of flush_table, table after table
\* (the code appends each result, a list, to its result list; the statements are
\* kept here in that order, without the nesting)
RECURSIVE utils_flush_all(_, _, _, _)
utils_flush_all(maps, max_bytes, k, results) ==
    IF k > Len(maps) THEN Returned(maps, Some(results))
    ELSE LET res == utils_flush_table(maps, max_bytes, maps[k].table)
         IN utils_flush_all(res.maps, max_bytes, k + 1, results \o res.ret[1])

\* what a call returned: None, or the statements returned and what they say
ViewOfReturn(impl, ret) ==
    IF ret = None THEN None
    ELSE Some([i \in 1..Len(ret[1]) |->
                 IF impl = "insert_merger" THEN ViewOfStmt(ret[1][i])
                 ELSE ViewOfText(ret[1][i])])

\* the statements pending for a table: the texts they came from
Pending(impl, maps, table) ==
    LET k == entry_of(maps, table) IN
    IF k = 0 THEN <<>>
    ELSE [i \in 1..Len(maps[k].items) |-> maps[k].items[i].tag[1]]

NoStreamCall == [op |-> "none", arg |-> <<>>, ret |-> None, raised |-> FALSE, before |-> <<>>]

StreamStart(impl, max_bytes) ==
    [impl |-> impl, max_bytes |-> max_bytes, table_maps |-> <<>>, calls |-> 0,
     last |-> NoStreamCall, history |-> <<>>]

StreamInit ==
    stream \in { StreamStart(impl, max_bytes) :
                   impl \in MergerImpls, max_bytes \in StreamLimits }

StreamIdle == stream = StreamStart("insert_merger", 900)

StreamFrame ==
    UNCHANGED <<syncVars, retry, firing, asyncVars, registry, merger, pair, scope, conc, rw, ctx>>

StreamCall(op, arg, res) ==
    LET this == [op |-> op, arg |-> arg, ret |-> ViewOfReturn(stream.impl, res.ret),
                 raised |-> res.raised, before |-> stream.table_maps]
    IN stream' = [stream EXCEPT
                    !.table_maps = res.maps, !.calls = stream.calls + 1,
                    !.last = this, !.history = Append(stream.history, this)]

StreamAddStatement ==
    /\ stream.calls < MaxStreamCalls
    /\ \E text \in StreamPool :
         StreamCall("add_statement", <<text>>,
                    IF stream.impl = "insert_merger"
                    THEN stream_add_statement(stream.table_maps, stream.max_bytes,
                                              AsStmt(text))
                    ELSE utils_add_statement(stream.table_maps, stream.max_bytes, text))
    /\ StreamFrame

StreamFlushTable ==
    /\ stream.calls < MaxStreamCalls
    /\ \E table \in StreamTables :
         StreamCall("flush_table", <<table>>,
                    IF stream.impl = "insert_merger"
                    THEN stream_flush_table(stream.table_maps, table)
                    ELSE utils_flush_table(stream.table_maps, stream.max_bytes, table))
    /\ StreamFrame

StreamFlushAll ==
    /\ stream.calls < MaxStreamCalls
    /\ StreamCall("flush_all", <<>>,
                  IF stream.impl = "insert_merger"
                  THEN stream_flush_all(stream.table_maps, 1, <<>>)
                  ELSE utils_flush_all(stream.table_maps, stream.max_bytes, 1, <<>>))
    /\ StreamFrame

StreamNext ==
    \/ StreamAddStatement
    \/ StreamFlushTable
    \/ StreamFlushAll

----------------------------------------------------------------------------
(* AsyncSQLBatcher.process_statements (async_batcher.py) as a function of the
   configuration and the statement list, for a batcher without plugins and in
   batch mode: add_statement, flush when it says so, a last flush of what is
   left.  `adapter` lists the savepoint calls made on the adapter, in order; the
   n-th flush names its savepoint after the list object it flushes. *)

AsyncState(batch, size, cc, af) ==
    [batch |-> batch, size |-> size, cc |-> cc, af |-> af,
     payloads |-> <<>>, calls |-> 0, count |-> 0, raised |-> FALSE,
     adapter |-> <<>>, flushes |-> 0]

async_update_adjustment_factor(c, st, s) ==
    IF ~c.auto_adjust_for_columns THEN st
    ELSE IF st.cc # None THEN st
    ELSE LET detected == detect_column_count(s) IN
         IF detected = None THEN st
         ELSE LET raw == <<c.reference_column_count, detected[1]>>
                  f == RatMax(c.min_adjustment_factor,
                              RatMin(c.max_adjustment_factor, raw))
              IN [st EXCEPT !.cc = detected, !.af = f]

async_get_adjusted_max_bytes(c, st) ==
    IF RatIsOne(st.af) THEN c.max_bytes
    ELSE (c.max_bytes * st.af[1]) \div st.af[2]

\* add_statement: the new state; async_should_flush is its return value
async_add_statement(c, st, s) ==
    LET st1 == async_update_adjustment_factor(c, st, s)
        n == Normalize(s)
    IN [st1 EXCEPT !.batch = Append(st1.batch, n),
                   !.size = st1.size + ByteLen(n)]

async_should_flush(c, st) == st.size >= async_get_adjusted_max_bytes(c, st)

\* QueryCollector.reset: _batch = [], _current_size = 0
async_reset(st) == [st EXCEPT !.batch = <<>>, !.size = 0]

\* for statement in merged_statements: result = await execute_callback(statement);
\* invocation number failAt of the callback raises (0: none does)
RECURSIVE async_execute(_, _, _, _, _, _)
async_execute(c, st, merged, i, name, failAt) ==
    IF i > Len(merged) THEN st
    ELSE LET k == st.calls + 1
             st1 == [st EXCEPT !.calls = k,
                        !.payloads = Append(st.payloads,
                            [stmts |-> <<merged[i]>>,
                             adj |-> async_get_adjusted_max_bytes(c, st)])]
         IN IF k = failAt
            THEN [st1 EXCEPT !.raised = TRUE,
                     !.adapter = Append(st1.adapter,
                                        AdapterEv("rollback_to_savepoint", name, TRUE))]
            ELSE async_execute(c, st1, merged, i + 1, name, failAt)

\* flush: savepoint, merge, one callback invocation per merged statement,
\* release, reset, return len(results); dry_run is not consulted
async_flush(c, st, failAt) ==
    IF st.batch = <<>> THEN st
    ELSE LET name == savepoint_name(st.flushes + 1)
             st1 == [st EXCEPT !.flushes = st.flushes + 1,
                        !.adapter = Append(st.adapter,
                                           AdapterEv("create_savepoint", name, TRUE))]
             merged == merge(st1.batch)
             st2 == async_execute(c, st1, merged, 1, name, failAt)
         IN IF st2.raised THEN st2
            ELSE [async_reset(st2) EXCEPT
                     !.count = st2.count + Len(merged),
                     !.adapter = Append(st2.adapter,
                                        AdapterEv("release_savepoint", name, TRUE))]

RECURSIVE async_process_loop(_, _, _, _, _)
async_process_loop(c, st, statements, i, failAt) ==
    IF i > Len(statements) THEN async_flush(c, st, failAt)
    ELSE LET st1 == async_add_statement(c, st, statements[i])
             st2 == IF async_should_flush(c, st1)
                    THEN async_flush(c, st1, failAt) ELSE st1
         IN IF st2.raised THEN st2
            ELSE async_process_loop(c, st2, statements, i + 1, failAt)

async_process_statements(c, st, statements, failAt) ==
    async_process_loop(c, st, statements, 1, failAt)

----------------------------------------------------------------------------
(* One statement list handed to a fresh SQLBatcher and to a fresh
   AsyncSQLBatcher of the same configuration, with a callback that records its
   argument and never raises. *)

PairPool == { StmtSelect, StmtT1, StmtT2, StmtWide }

PairConfigs ==
    [ max_bytes : {16, 64},
      dry_run : BOOLEAN,
      auto_adjust_for_columns : BOOLEAN,
      reference_column_count : {2},
      min_adjustment_factor : { <<1, 2>> },
      max_adjustment_factor : { <<3, 2>> } ]

NotRun == [done |-> FALSE, payloads |-> <<>>, count |-> 0, batch |-> <<>>]

HasRun(st) ==
    [done |-> TRUE, payloads |-> [i \in 1..Len(st.payloads) |-> st.payloads[i].stmts], count |-> st.count,
     batch |-> st.batch]

PairStart(c, statements) ==
    [c |-> c, statements |-> statements, sync |-> NotRun, async |-> NotRun]

PairInit ==
    pair \in { PairStart(c, statements) :
                 c \in PairConfigs, statements \in SeqsUpTo(PairPool, MaxStatements) }

PairIdle == pair = PairStart(CHOOSE c \in PairConfigs : TRUE, <<>>)

PairFrame ==
    UNCHANGED <<syncVars, retry, firing, asyncVars, registry, merger, stream, scope, conc, rw, ctx>>

\* SQLBatcher(**c).process_statements(statements, callback)
PairSync ==
    /\ ~pair.sync.done
    /\ pair' = [pair EXCEPT !.sync =
           HasRun(process_statements(pair.c, BatcherState(<<>>, 0, None, <<1, 1>>),
                                     pair.statements, 0))]
    /\ PairFrame

\* await AsyncSQLBatcher(adapter, **c).process_statements(statements, callback)
PairAsync ==
    /\ ~pair.async.done
    /\ pair' = [pair EXCEPT !.async =
           HasRun(async_process_statements(pair.c, AsyncState(<<>>, 0, None, <<1, 1>>),
                                           pair.statements, 0))]
    /\ PairFrame

PairNext ==
    \/ PairSync
    \/ PairAsync

----------------------------------------------------------------------------
(* AsyncSQLBatcher.savepoint(name), the scope the tests enter with
   `async with batcher.savepoint("test_savepoint")`.  async_batcher.py holds no
   such method; the scope is modelled as the specification describes it: the
   savepoint is created on entry, released when the body completes and rolled
   back to, with the exception raised again, when the body raises.  The body is
   one process_statements call of the batcher (async_batcher.py). *)

ScopeName == <<"test_savepoint">>

\* entry of the scope: await adapter.create_savepoint(name)
savepoint_enter(adapter, name) ==
    Append(adapter, AdapterEv("create_savepoint", name, TRUE))

\* exit of the scope: release after a body that completed, rollback after a
\* body that raised (the exception goes on to the caller)
savepoint_exit(adapter, name, raised) ==
    IF raised
    THEN Append(adapter, AdapterEv("rollback_to_savepoint", name, TRUE))
    ELSE Append(adapter, AdapterEv("release_savepoint", name, TRUE))

ScopeStart(c, statements) ==
    [pc |-> "out", c |-> c, statements |-> statements, name |-> ScopeName,
     adapter |-> <<>>, body_raised |-> FALSE, raised |-> FALSE]

ScopeInit ==
    scope \in { ScopeStart(c, statements) :
                  c \in PairConfigs, statements \in SeqsUpTo(PairPool, MaxStatements) }

ScopeIdle == scope = ScopeStart(CHOOSE c \in PairConfigs : TRUE, <<>>)

ScopeFrame ==
    UNCHANGED <<syncVars, retry, firing, asyncVars, registry, merger, stream, pair, conc, rw, ctx>>

\* async with batcher.savepoint(name):
ScopeEnter ==
    /\ scope.pc = "out"
    /\ scope' = [scope EXCEPT !.pc = "in",
                              !.adapter = savepoint_enter(scope.adapter, scope.name)]
    /\ ScopeFrame

\* await batcher.process_statements(statements, callback) inside the scope;
\* invocation number failAt of the callback raises (0: none does)
ScopeProcessStatements ==
    /\ scope.pc = "in"
    /\ \E failAt \in 0..MaxStatements :
       \E st \in {async_process_statements(scope.c, AsyncState(<<>>, 0, None, <<1, 1>>),
                                           scope.statements, failAt)} :
          scope' = [scope EXCEPT !.pc = "body_done",
                                 !.adapter = scope.adapter \o st.adapter,
                                 !.body_raised = st.raised]
    /\ ScopeFrame

\* the scope is left, normally or by the exception of the body
ScopeExit ==
    /\ scope.pc = "body_done"
    /\ scope' = [scope EXCEPT !.pc = "exited",
                              !.adapter = savepoint_exit(scope.adapter, scope.name,
                                                         scope.body_raised),
                              !.raised = scope.body_raised]
    /\ ScopeFrame

ScopeNext ==
    \/ ScopeEnter
    \/ ScopeProcessStatements
    \/ ScopeExit

----------------------------------------------------------------------------
(* Two asyncio tasks on one AsyncSQLBatcher without plugins.  A task runs until
   it awaits something that suspends it: in flush the adapter calls and the
   execution callback (with no plugin registered the hook firings do not
   suspend).  Each step below is the code of flush from one suspension to the
   next; add_statement has no await and is one step.  The adapter calls succeed,
   the callback may raise.  Every statement of ConcPool is added at most once, so
   a tag names one buffered statement.
     batch, size - current_batch and current_size of the shared batcher,
     task[k]     - the flush of task k: its position, the list it got from
                   merge, the statement it is executing, its results,
     passed      - the callback invocations so far: flush and statement tags,
     overlaps    - pairs of flush calls that were in progress at the same time,
     late        - statements added while a flush of the other task was suspended,
     lost        - statements a reset removed from the batch that were never
                   passed to the callback. *)

Tasks == {1, 2}

ConcPool == { StmtSelect, StmtT1, StmtT2 }

MaxFlushCalls == 3

IdleTask == [pc |-> "idle", id |-> 0, merged |-> <<>>, idx |-> 0, results |-> 0]

ConcStart ==
    [batch |-> <<>>, size |-> 0, task |-> [k \in Tasks |-> IdleTask],
     added |-> {}, flushes |-> 0, passed |-> <<>>, overlaps |-> {},
     late |-> {}, lost |-> {}, last |-> [task |-> 0, op |-> "none", status |-> "none", ret |-> 0]]

ConcInit == conc = ConcStart

ConcIdle == conc = ConcStart

ConcFrame ==
    UNCHANGED <<syncVars, retry, firing, asyncVars, registry, merger, stream, pair, scope, rw, ctx>>

Other(k) == CHOOSE j \in Tasks : j # k

InFlush(k) == conc.task[k].pc # "idle"

\* the tags of the statements handed to the callback so far
PassedTags == UNION { { p.tags[i] : i \in 1..Len(p.tags) } :
                        p \in { conc.passed[n] : n \in 1..Len(conc.passed) } }

BatchTags(batch) == { batch[i].tag[1] : i \in 1..Len(batch) }

\* result = await execute_callback(statement): the invocation begins
begin_execute(c, k, i) ==
    [c EXCEPT !.task[k].pc = "execute", !.task[k].idx = i,
              !.passed = Append(c.passed, [flush |-> c.task[k].id,
                                           tags |-> c.task[k].merged[i].tag])]

\* task k calls add_statement(s)
ConcAddStatement(k) ==
    /\ ~InFlush(k)
    /\ \E s \in ConcPool :
         /\ s.tag[1] \notin conc.added
         /\ LET n == Normalize(s) IN
            conc' = [conc EXCEPT
                       !.batch = Append(conc.batch, n),
                       !.size = conc.size + ByteLen(n),
                       !.added = conc.added \cup {s.tag[1]},
                       !.late = IF InFlush(Other(k)) THEN conc.late \cup {s.tag[1]}
                                ELSE conc.late,
                       !.last = [task |-> k, op |-> "add_statement",
                                 status |-> "returned", ret |-> 0]]
    /\ ConcFrame

\* task k calls flush: 0 on an empty batch, else up to await create_savepoint
ConcFlushCall(k) ==
    /\ ~InFlush(k)
    /\ conc.flushes < MaxFlushCalls
    /\ IF conc.batch = <<>>
       THEN conc' = [conc EXCEPT !.last = [task |-> k, op |-> "flush",
                                           status |-> "returned", ret |-> 0]]
       ELSE LET id == conc.flushes + 1 IN
            conc' = [conc EXCEPT
                       !.flushes = id,
                       !.task[k] = [IdleTask EXCEPT !.pc = "create_savepoint", !.id = id],
                       !.overlaps = IF InFlush(Other(k))
                                    THEN conc.overlaps \cup {{id, conc.task[Other(k)].id}}
                                    ELSE conc.overlaps]
    /\ ConcFrame

\* create_savepoint has returned: merge current_batch as it is now, begin the
\* first execution (or go on to release_savepoint when there is nothing)
ConcMerge(k) ==
    /\ conc.task[k].pc = "create_savepoint"
    /\ LET merged == merge(conc.batch)
           c1 == [conc EXCEPT !.task[k].merged = merged]
       IN conc' = IF merged = <<>> THEN [c1 EXCEPT !.task[k].pc = "release"]
                  ELSE begin_execute(c1, k, 1)
    /\ ConcFrame

\* the callback has returned or raised: next statement, release or rollback
ConcExecuted(k) ==
    /\ conc.task[k].pc = "execute"
    /\ \E ok \in BOOLEAN :
         LET t == conc.task[k] IN
         conc' = IF ~ok THEN [conc EXCEPT !.task[k].pc = "rollback"]
                 ELSE LET c1 == [conc EXCEPT !.task[k].results = t.results + 1] IN
                      IF t.idx < Len(t.merged) THEN begin_execute(c1, k, t.idx + 1)
                      ELSE [c1 EXCEPT !.task[k].pc = "release"]
    /\ ConcFrame

\* release_savepoint has returned: self.reset(); return len(results)
ConcReleased(k) ==
    /\ conc.task[k].pc = "release"
    /\ conc' = [conc EXCEPT
                  !.lost = conc.lost \cup (BatchTags(conc.batch) \ PassedTags),
                  !.batch = <<>>,
                  !.size = 0,
                  !.task[k] = IdleTask,
                  !.last = [task |-> k, op |-> "flush", status |-> "returned",
                            ret |-> conc.task[k].results]]
    /\ ConcFrame

\* rollback_to_savepoint has returned: the exception leaves flush, no reset
ConcRolledBack(k) ==
    /\ conc.task[k].pc = "rollback"
    /\ conc' = [conc EXCEPT
                  !.task[k] = IdleTask,
                  !.last = [task |-> k, op |-> "flush", status |-> "raised", ret |-> 0]]
    /\ ConcFrame

ConcNext ==
    \E k \in Tasks :
        \/ ConcAddStatement(k)
        \/ ConcFlushCall(k)
        \/ ConcMerge(k)
        \/ ConcExecuted(k)
        \/ ConcReleased(k)
        \/ ConcRolledBack(k)

----------------------------------------------------------------------------
(* Hooks that rewrite statements (async_batcher.py flush, plugins.py
   execute_hooks).  flush hands the list object current_batch to the PRE_BATCH
   hooks and the list object merged_statements to the PRE_EXECUTE hooks, and a
   hook may change the list it was given.  Every plugin of this component
   registered one hook, at PRE_BATCH or at PRE_EXECUTE, of one of these kinds:
     retable     statements[:] = [s.replace("INTO u", "INTO t") for s in statements]
     reverse     statements.reverse()
     drop_first  del statements[:1]
     rebind      statements = [s.upper() for s in statements]   (a new local list)
   No hook, adapter call or callback raises here; `seen` is the list each hook
   was called with, `to_merge` the argument of _merge_insert_statements and
   `executed` the arguments of the execution callback, in order. *)

\* "INSERT INTO u (a) VALUES (4)"
StmtU4 == Stmt("u4", 0, 28, FALSE, 0, Some(1), Some("u"), Some(<<"a">>), << <<"4">> >>)

RewritePool == { StmtSelect, StmtT1, StmtU4 }

\* the plugins registered on the batcher
MaxRewriters == 3

\* the statements added before the flush
MaxRewriteBatch == 2

HookKinds == {"retable", "reverse", "drop_first", "rebind"}

Rewriters == [type : {"PRE_BATCH", "PRE_EXECUTE"}, kind : HookKinds]

\* s.replace("INTO u", "INTO t")
retable(s) == IF s.table = Some("u") THEN [s EXCEPT !.table = Some("t")] ELSE s

\* a hook called with a copy of the list: nothing it does reaches the caller
call_hook_on_copy(kind, statements) == statements

\* hook(statements, metadata, error): the list as the hook leaves it
call_hook(kind, statements) ==
    IF kind = "retable" THEN [i \in 1..Len(statements) |-> retable(statements[i])]
    ELSE IF kind = "reverse"
         THEN [i \in 1..Len(statements) |-> statements[Len(statements) + 1 - i]]
    ELSE IF kind = "drop_first"
         THEN (IF statements = <<>> THEN <<>> ELSE Tail(statements))
    ELSE statements

\* for plugin in self._plugins.values(): for hook in plugin.get_hooks(hook_type):
\*     hook(statements, metadata, error)
RECURSIVE execute_hooks_on(_, _, _, _, _)
execute_hooks_on(plugins, hook_type, statements, i, seen) ==
    IF i > Len(plugins) THEN [statements |-> statements, seen |-> seen]
    ELSE IF plugins[i].type # hook_type
         THEN execute_hooks_on(plugins, hook_type, statements, i + 1, seen)
    ELSE execute_hooks_on(plugins, hook_type, call_hook(plugins[i].kind, statements),
                          i + 1,
                          Append(seen, [plugin |-> i, type |-> hook_type,
                                        statements |-> statements]))

RewriteStart(plugins, statements) ==
    [pc |-> "start", plugins |-> plugins, input |-> statements, batch |-> statements,
     to_merge |-> <<>>, merged |-> <<>>, idx |-> 0, executed |-> <<>>,
     seen |-> <<>>, ret |-> 0]

RewriteInit ==
    rw \in { RewriteStart(plugins, [i \in 1..Len(statements) |-> Normalize(statements[i])]) :
               plugins \in SeqsUpTo(Rewriters, MaxRewriters),
               statements \in SeqsUpTo(RewritePool, MaxRewriteBatch) }

RewriteIdle == rw = RewriteStart(<<>>, <<>>)

RewriteFrame ==
    UNCHANGED <<syncVars, retry, firing, asyncVars, registry, merger, stream, pair,
                scope, conc, ctx>>

\* flush: `if not self.current_batch: return 0`, else create_savepoint
RewriteFlushCall ==
    /\ rw.pc = "start"
    /\ rw' = [rw EXCEPT !.pc = IF rw.batch = <<>> THEN "done" ELSE "pre_batch"]
    /\ RewriteFrame

\* PRE_BATCH hooks on self.current_batch, then
\* merged_statements = self._merge_insert_statements(self.current_batch)
RewritePreBatch ==
    /\ rw.pc = "pre_batch"
    /\ LET res == execute_hooks_on(rw.plugins, "PRE_BATCH", rw.batch, 1, rw.seen)
       IN rw' = [rw EXCEPT !.pc = "pre_execute", !.batch = res.statements,
                           !.seen = res.seen, !.to_merge = res.statements,
                           !.merged = merge(res.statements)]
    /\ RewriteFrame

\* PRE_EXECUTE hooks on merged_statements
RewritePreExecute ==
    /\ rw.pc = "pre_execute"
    /\ LET res == execute_hooks_on(rw.plugins, "PRE_EXECUTE", rw.merged, 1, rw.seen)
       IN rw' = [rw EXCEPT !.pc = IF res.statements = <<>> THEN "release" ELSE "execute",
                           !.merged = res.statements, !.seen = res.seen, !.idx = 1]
    /\ RewriteFrame

\* for statement in merged_statements: result = await execute_callback(statement)
RewriteExecute ==
    /\ rw.pc = "execute"
    /\ rw' = [rw EXCEPT !.executed = Append(rw.executed, rw.merged[rw.idx]),
                        !.idx = rw.idx + 1,
                        !.pc = IF rw.idx < Len(rw.merged) THEN "execute" ELSE "release"]
    /\ RewriteFrame

\* the POST_EXECUTE and POST_BATCH firings (no hook registered), release_savepoint,
\* self.reset() and return len(results)
RewriteRelease ==
    /\ rw.pc = "release"
    /\ rw' = [rw EXCEPT !.pc = "done", !.batch = <<>>, !.ret = Len(rw.executed)]
    /\ RewriteFrame

RewriteNext ==
    \/ RewriteFlushCall
    \/ RewritePreBatch
    \/ RewritePreExecute
    \/ RewriteExecute
    \/ RewriteRelease

----------------------------------------------------------------------------
(* The `async with` block of an AsyncSQLBatcher (async_batcher.py __aenter__,
   __aexit__).  The batcher is the one of the a_* variables and its calls inside
   the block are the actions of that component; __aexit__ flushes with
   self._adapter.execute as the execution callback, which may raise like any
   callback.  ctx.log holds the hook firings __aenter__ and __aexit__ make
   themselves, ctx.pending the batch as __aexit__ found it, ctx.flushed whether
   it called flush. *)

ContextStart ==
    [pc |-> "outside", pending |-> <<>>, flushed |-> FALSE, log |-> <<>>,
     status |-> "none", error |-> None]

ContextInit == ctx = ContextStart

ContextIdle == ctx = ContextStart

ContextFrame ==
    UNCHANGED <<syncVars, retry, firing, registry, merger, stream, pair, scope, conc, rw>>

\* __aenter__: the PRE_BATCH hooks on [] ("initialization"), then the block
ContextEnter ==
    /\ ctx.pc = "outside"
    /\ \E raising \in SUBSET (1..a_plugins) :
         LET res == fire("PRE_BATCH", <<>>, None, raising) IN
         ctx' = IF res.error = None
                THEN [ctx EXCEPT !.pc = "inside", !.log = res.events]
                ELSE [ctx EXCEPT !.pc = "not_entered", !.log = res.events,
                                 !.status = "raised", !.error = res.error]
    /\ UNCHANGED asyncVars
    /\ ContextFrame

\* the calls the block makes on the batcher, and the awaits of its flushes
ContextBatcherStep ==
    /\ ctx.pc \in {"inside", "flushing"}
    /\ \/ AsyncCreateSavepoint
       \/ AsyncPreBatch
       \/ AsyncPreExecute
       \/ AsyncExecute
       \/ AsyncRollback
       \/ AsyncOnErrorInner
       \/ AsyncPostExecute
       \/ AsyncPostBatch
       \/ AsyncRelease
       \/ AsyncOnErrorOuter

ContextAddStatement == ctx.pc = "inside" /\ AsyncAddStatement

ContextFlushCall == ctx.pc = "inside" /\ AsyncFlushCall

\* __aexit__: `if self.current_batch: await self.flush(self._adapter.execute, ...)`
ContextExit ==
    /\ ctx.pc = "inside"
    /\ a_flush.pc = "idle"
    /\ IF a_batch = <<>>
       THEN /\ ctx' = [ctx EXCEPT !.pc = "finally", !.pending = <<>>]
            /\ UNCHANGED asyncVars
       ELSE /\ ctx' = [ctx EXCEPT !.pc = "flushing", !.pending = a_batch,
                                  !.flushed = TRUE]
            /\ a_flush' = [IdleFlush EXCEPT !.pc = "create_savepoint",
                              !.savepoint = savepoint_name(a_list),
                              !.pre_batch = a_batch,
                              !.after = a_out.savepoint]
            /\ a_out' = NoAsyncCall
            /\ UNCHANGED <<a_plugins, a_batch, a_size, a_list>>
    /\ ContextFrame

\* the flush of __aexit__ is over
FlushOver(status) ==
    ctx.pc = "flushing" /\ a_flush.pc = "idle" /\ a_out.op = "flush" /\ a_out.status = status

\* except Exception as e: the ON_ERROR hooks on current_batch ("cleanup"), `raise`
ContextOnError ==
    /\ FlushOver("raised")
    /\ \E raising \in SUBSET (1..a_plugins) :
         LET res == fire("ON_ERROR", a_batch, a_out.error, raising) IN
         ctx' = [ctx EXCEPT !.pc = "finally", !.log = ctx.log \o res.events,
                            !.error = IF res.error = None THEN a_out.error ELSE res.error]
    /\ UNCHANGED asyncVars
    /\ ContextFrame

\* finally: self.reset(), then the POST_BATCH hooks on [] ("cleanup"); the
\* exception in flight, if any, leaves the block unless a hook raises another
ContextFinally ==
    /\ ctx.pc = "finally" \/ FlushOver("returned")
    /\ \E raising \in SUBSET (1..a_plugins), new \in (1..NumListIds) \ {a_list} :
         LET res == fire("POST_BATCH", <<>>, None, raising)
             error == IF res.error = None THEN ctx.error ELSE res.error
         IN /\ ctx' = [ctx EXCEPT !.pc = "left", !.log = ctx.log \o res.events,
                                  !.error = error,
                                  !.status = IF error = None THEN "returned" ELSE "raised"]
            /\ a_list' = new
    /\ a_batch' = <<>>
    /\ a_size' = 0
    /\ UNCHANGED <<a_plugins, a_flush, a_out>>
    /\ ContextFrame

ContextNext ==
    \/ ContextEnter
    \/ ContextAddStatement
    \/ ContextFlushCall
    \/ ContextBatcherStep
    \/ ContextExit
    \/ ContextOnError
    \/ ContextFinally
----------------------------------------------------------------------------
(* Specifications: one per component, the other components idle *)

ExtIdle == StreamIdle /\ PairIdle /\ ScopeIdle /\ ConcIdle /\ RewriteIdle /\ ContextIdle

CoreIdle ==
    SyncIdle /\ RetryIdle /\ HooksIdle /\ AsyncIdle /\ RegistryIdle /\ MergerIdle

RetrySpecInit == RetryInit /\ SyncIdle /\ HooksIdle /\ AsyncIdle /\ RegistryIdle /\ MergerIdle /\ ExtIdle

SpecRetry == RetrySpecInit /\ [][RetryNext]_vars

SyncSpecInit == SyncInit /\ RetryIdle /\ HooksIdle /\ AsyncIdle /\ RegistryIdle /\ MergerIdle /\ ExtIdle

SpecSync == SyncSpecInit /\ [][SyncNext]_vars

HooksSpecInit == HooksInit /\ SyncIdle /\ RetryIdle /\ AsyncIdle /\ RegistryIdle /\ MergerIdle /\ ExtIdle

SpecHooks == HooksSpecInit /\ [][HooksNext]_vars

AsyncSpecInit == AsyncInit /\ SyncIdle /\ RetryIdle /\ HooksIdle /\ RegistryIdle /\ MergerIdle /\ ExtIdle

SpecAsync == AsyncSpecInit /\ [][AsyncNext]_vars

RegistrySpecInit ==
    RegistryInit /\ SyncIdle /\ RetryIdle /\ HooksIdle /\ AsyncIdle /\ MergerIdle /\ ExtIdle

SpecRegistry == RegistrySpecInit /\ [][RegistryNext]_vars

MergerSpecInit ==
    /\ MergerInit
    /\ SyncIdle /\ RetryIdle /\ HooksIdle /\ AsyncIdle /\ RegistryIdle /\ ExtIdle

SpecMerger == MergerSpecInit /\ [][MergerNext]_vars

StreamSpecInit ==
    StreamInit /\ CoreIdle /\ PairIdle /\ ScopeIdle /\ ConcIdle /\ RewriteIdle /\ ContextIdle

SpecStream == StreamSpecInit /\ [][StreamNext]_vars

PairSpecInit ==
    PairInit /\ CoreIdle /\ StreamIdle /\ ScopeIdle /\ ConcIdle /\ RewriteIdle /\ ContextIdle

SpecPair == PairSpecInit /\ [][PairNext]_vars

ScopeSpecInit ==
    ScopeInit /\ CoreIdle /\ StreamIdle /\ PairIdle /\ ConcIdle /\ RewriteIdle /\ ContextIdle

SpecScope == ScopeSpecInit /\ [][ScopeNext]_vars

ConcSpecInit ==
    ConcInit /\ CoreIdle /\ StreamIdle /\ PairIdle /\ ScopeIdle /\ RewriteIdle /\ ContextIdle

SpecConc == ConcSpecInit /\ [][ConcNext]_vars

RewriteSpecInit ==
    RewriteInit /\ CoreIdle /\ StreamIdle /\ PairIdle /\ ScopeIdle /\ ConcIdle /\ ContextIdle

SpecRewrite == RewriteSpecInit /\ [][RewriteNext]_vars

ContextSpecInit ==
    /\ ContextInit /\ AsyncInit
    /\ SyncIdle /\ RetryIdle /\ HooksIdle /\ RegistryIdle /\ MergerIdle
    /\ StreamIdle /\ PairIdle /\ ScopeIdle /\ ConcIdle /\ RewriteIdle

SpecContext == ContextSpecInit /\ [][ContextNext]_vars

----------------------------------------------------------------------------
(* Claims about SQLBatcher *)

PayloadStmts(payloads) == [i \in 1..Len(payloads) |-> payloads[i].stmts]

NormalizeAll(statements) ==
    [i \in 1..Len(statements) |-> Normalize(statements[i])]

\* the payload that holds the statement at position pos of the flattened payloads
RECURSIVE PayloadAt(_, _)
PayloadAt(payloads, pos) ==
    IF pos <= Len(Head(payloads).stmts) THEN Head(payloads)
    ELSE PayloadAt(Tail(payloads), pos - Len(Head(payloads).stmts))

\* C1: every payload that process_statements (called on a batcher with nothing
\* pending) hands to the callback is at most the adjusted max_bytes in total, or
\* is one single statement that alone exceeds the adjusted max_bytes.
C1_PayloadWithinCeiling ==
    (call.op = "process_statements" /\ call.pre_batch = <<>>) =>
        \A i \in 1..Len(call.payloads) :
            LET p == call.payloads[i] IN
            \/ SumBytes(p.stmts) <= p.adj
            \/ Len(p.stmts) = 1 /\ ByteLen(p.stmts[1]) > p.adj

----------------------------------------------------------------------------
(* Claims about the retry layers *)

C9_ExhaustionRaisesMaxRetriesExceeded ==
    retry.pc = "raised" =>
        /\ retry.raised[1].class = "MaxRetriesExceededError"
        /\ retry.raised[1].cause = Some(<<"error", retry.max_retries + 1>>)

----------------------------------------------------------------------------
(* Claims about the hook pipelines *)

\* C10: in one execute_hooks firing of the pipeline AsyncSQLBatcher uses
\* (plugins.PluginManager), a hook that raises does not stop the hooks registered
\* after it: every registered hook has been run when the firing is over.
C10_HookFailureIsolated ==
    (firing.done /\ firing.impl = "plugins.PluginManager") =>
        firing.ran = firing.hooks

----------------------------------------------------------------------------
(* Claims about AsyncSQLBatcher.flush, over the record a_out of the last call:
   its outcome, the events of the flush in order, the batch it started from *)

EventsAt(log, P(_)) == { k \in 1..Len(log) : P(log[k]) }

IsExecute(ev) == ev.e = "execute"

IsFailedExecute(ev) == ev.e = "execute" /\ ~ev.ok

AdapterEvents(log, op) == { k \in 1..Len(log) : log[k].e = op }

HookFirings(log, type) ==
    { k \in 1..Len(log) : log[k].e = "hook" /\ log[k].type = type }

IsRaisingHook(ev) == ev.e = "hook" /\ ~ev.ok

AdapterCalls(log, op) == Cardinality(AdapterEvents(log, op))

\* a flush in which the callback raised on a statement and the adapter rolled back
StatementFailed ==
    /\ a_out.op = "flush" /\ a_out.status = "raised"
    /\ EventsAt(a_out.log, IsFailedExecute) # {}
    /\ \E k \in AdapterEvents(a_out.log, "rollback_to_savepoint") : a_out.log[k].ok

\* a flush in which the callback was called on every merged statement and never raised
AllStatementsSucceeded ==
    /\ a_out.op = "flush" /\ a_out.pre_batch # <<>>
    /\ EventsAt(a_out.log, IsFailedExecute) = {}
    /\ Cardinality(EventsAt(a_out.log, IsExecute)) = Len(merge(a_out.pre_batch))

\* C3: when the callback raises on the i-th merged statement (and the rollback
\* the adapter is asked for succeeds), no statement after the i-th is passed to
\* the callback in that flush and flush raises that same error.
C3_StopsAndRaisesSameError ==
    StatementFailed =>
        \A k \in EventsAt(a_out.log, IsFailedExecute) :
            /\ \A j \in EventsAt(a_out.log, IsExecute) : j <= k
            /\ a_out.error = Some(<<"callback", a_out.log[k].id>>)

\* C4: one flush of a non-empty batch calls create_savepoint once; rollback once
\* and release never if a statement failed; release once and rollback never if
\* every statement succeeded; all with the same savepoint name.
C4_SavepointCallCounts ==
    LET log == a_out.log
        savepointCalls == { k \in 1..Len(log) : log[k].name # <<>> }
    IN /\ StatementFailed =>
            /\ AdapterCalls(log, "create_savepoint") = 1
            /\ AdapterCalls(log, "rollback_to_savepoint") = 1
            /\ AdapterCalls(log, "release_savepoint") = 0
       /\ AllStatementsSucceeded =>
            /\ AdapterCalls(log, "create_savepoint") = 1
            /\ AdapterCalls(log, "release_savepoint") = 1
            /\ AdapterCalls(log, "rollback_to_savepoint") = 0
       /\ \A k \in savepointCalls : log[k].name = a_out.savepoint

\* C5: when a statement fails during flush (and no hook raises), every registered
\* ON_ERROR hook is fired exactly once, with the callback's exception as its
\* error, and no POST_EXECUTE or POST_BATCH hook is fired.
C5_OnErrorExactlyOnce ==
    (StatementFailed /\ EventsAt(a_out.log, IsRaisingHook) = {}) =>
        LET log == a_out.log
            failed == CHOOSE k \in EventsAt(log, IsFailedExecute) : TRUE
        IN /\ \A p \in 1..a_plugins :
                \E k \in HookFirings(log, "ON_ERROR") :
                    /\ log[k].id = p
                    /\ log[k].error = Some(<<"callback", log[failed].id>>)
                    /\ \A j \in HookFirings(log, "ON_ERROR") :
                          log[j].id = p => j = k
           /\ HookFirings(log, "POST_EXECUTE") = {}
           /\ HookFirings(log, "POST_BATCH") = {}

\* C6: whenever flush or process_statements propagates an error to its caller,
\* the batcher's open batch is empty and current_size is 0 afterwards.
C6_ErrorLeavesBatchEmpty ==
    (call.op \in {"flush", "process_statements"} /\ call.raised) =>
        /\ current_batch = <<>>
        /\ current_size = 0

HookEvents(type, stmts) ==
    [p \in 1..a_plugins |-> HookEv(type, p, stmts, None, TRUE)]

SuccessfulFlushLog(batch, name) ==
    LET merged == merge(batch) IN
    <<AdapterEv("create_savepoint", name, TRUE)>>
    \o HookEvents("PRE_BATCH", batch)
    \o HookEvents("PRE_EXECUTE", merged)
    \o [i \in 1..Len(merged) |-> ExecuteEv(i, merged[i], TRUE)]
    \o HookEvents("POST_EXECUTE", merged)
    \o HookEvents("POST_BATCH", merged)
    \o <<AdapterEv("release_savepoint", name, TRUE), ResetEv>>

\* C7: the events of a successful flush are, in this order and each group once:
\* the PRE_BATCH hooks, the PRE_EXECUTE hooks on the merged statements, the
\* executions of the merged statements in list order, the POST_EXECUTE hooks,
\* the POST_BATCH hooks, the release of the savepoint, the reset of the batch;
\* no ON_ERROR hook is fired.
C7_SuccessfulFlushOrder ==
    (a_out.op = "flush" /\ a_out.status = "returned" /\ a_out.pre_batch # <<>>) =>
        /\ a_out.log = SuccessfulFlushLog(a_out.pre_batch, a_out.savepoint)
        /\ HookFirings(a_out.log, "ON_ERROR") = {}
        /\ a_out.ret = Len(merge(a_out.pre_batch))
        /\ a_batch = <<>> /\ a_size = 0

\* a successful flush of three statements, two of them merged, with two plugins
C7_Witness ==
    /\ a_out.op = "flush" /\ a_out.status = "returned"
    /\ Len(a_out.pre_batch) = 3
    /\ a_out.ret = 2
    /\ a_plugins = 2
    /\ Cardinality(HookFirings(a_out.log, "POST_BATCH")) = 2

RaisingHookFirings(log, type) ==
    { k \in HookFirings(log, type) : ~log[k].ok }

\* C11: if an ON_ERROR hook raises while flush handles a failed statement, the
\* exception flush propagates is still the callback's exception on that
\* statement, not the hook's.
C11_OnErrorHookDoesNotMaskError ==
    (StatementFailed /\ RaisingHookFirings(a_out.log, "ON_ERROR") # {}) =>
        \A k \in EventsAt(a_out.log, IsFailedExecute) :
            a_out.error = Some(<<"callback", a_out.log[k].id>>)

\* C12: a hook raising at POST_EXECUTE or POST_BATCH after every statement was
\* executed successfully does not make flush raise: the savepoint is released,
\* the batch is reset and the processed count is returned.
C12_PostHookFailureDoesNotFailFlush ==
    (/\ AllStatementsSucceeded
     /\ RaisingHookFirings(a_out.log, "POST_EXECUTE")
          \cup RaisingHookFirings(a_out.log, "POST_BATCH") # {}) =>
        /\ a_out.status = "returned"
        /\ a_out.ret = Len(merge(a_out.pre_batch))
        /\ AdapterCalls(a_out.log, "release_savepoint") = 1
        /\ a_batch = <<>> /\ a_size = 0

----------------------------------------------------------------------------
(* Claims about the plugin registries *)

\* the registry held, at every hook point, the hooks of its plugins before the call
ConsistentBefore ==
    \A t \in HookTypes :
        registry.last.fired[t] = concat_hooks(registry.last.plugins, t)

\* C13: unregistering a registered plugin P removes from every hook point the
\* hook entries P contributed and nothing else: the hooks of the other plugins
\* stay, in their previous order, also when one of them is the same callable as
\* a hook of P.
C13_UnregisterRemovesOwnHooksOnly ==
    (/\ registry.last.op = "unregister_plugin"
     /\ is_registered(registry.last.plugins, registry.last.name)
     /\ ConsistentBefore) =>
        \A t \in HookTypes :
            hooks_fired(registry, t)
              = concat_hooks(dict_del(registry.last.plugins, registry.last.name), t)

\* C14: register_plugin with a name that is already registered raises and leaves
\* the registered plugins and every hook list as they were.
C14_DuplicateRegistrationRejected ==
    (/\ registry.last.op = "register_plugin"
     /\ is_registered(registry.last.plugins, registry.last.name)) =>
        /\ registry.last.result = "raised"
        /\ registry.plugins = registry.last.plugins
        /\ \A t \in HookTypes : hooks_fired(registry, t) = registry.last.fired[t]

\* C15: at every hook point the hooks fired are the hooks of the currently
\* registered plugins, in the order in which these plugins were registered and,
\* within a plugin, in the order in which it registered them.
C15_HooksInRegistrationOrder ==
    \A t \in HookTypes : hooks_fired(registry, t) = concat_hooks(registry.history, t)

----------------------------------------------------------------------------
(* Claims about InsertMerger.merge *)

Merged == merger.pc # "start" /\ ~merger.raised

InputView == [i \in 1..Len(merger.statements) |-> ViewOfText(merger.statements[i])]

\* the VALUES tuples of a list of statements, statement after statement
TuplesOf(views) == Flatten([i \in 1..Len(views) |-> views[i].rows])

Count(seq, x) == Cardinality({ i \in 1..Len(seq) : seq[i] = x })

\* the column names of a statement as a set, case and quoting ignored
ColumnSet(view) ==
    IF view.columns = None THEN None
    ELSE Some({ lower(view.columns[1][i]) : i \in 1..Len(view.columns[1]) })

\* the column list of a statement, case ignored
ColumnList(view) ==
    IF view.columns = None THEN None
    ELSE Some([i \in 1..Len(view.columns[1]) |-> lower(view.columns[1][i])])

\* the (table, column-list) group a statement belongs to
GroupKey(view) == <<view.table, ColumnList(view)>>

SingleTuples ==
    \A i \in 1..Len(merger.statements) : Len(merger.statements[i].rows) = 1

InGroup(views, key) == SelectSeq(views, LAMBDA v : GroupKey(v) = key)

\* C16: with the size limit not binding, merge of utils/insert_merger.py, given
\* single-tuple INSERTs for several tables in any interleaving, emits for each
\* (table, column-list) group of its input one statement, which holds all and
\* only the VALUES tuples of the statements of that group, in input order; no
\* statement holds tuples of two tables.
C16_OneStatementPerGroup ==
    (/\ Merged /\ SingleTuples
     /\ merger.impl = "utils.insert_merger" /\ merger.max_bytes = 900) =>
        LET keys == { GroupKey(InputView[i]) : i \in 1..Len(InputView) }
        IN /\ Len(merger.view) = Cardinality(keys)
           /\ \A key \in keys :
                \E o \in 1..Len(merger.view) :
                    /\ merger.view[o].table = key[1]
                    /\ merger.view[o].rows = TuplesOf(InGroup(InputView, key))

\* C17: every statement merge returns is at most max_bytes long, unless it is
\* one of the input statements and by itself longer than max_bytes.
C17_OutputWithinMaxBytes ==
    Merged =>
        \A o \in 1..Len(merger.view) :
            \/ merger.view[o].len <= merger.max_bytes
            \/ \E i \in 1..Len(InputView) : InputView[i] = merger.view[o]

\* C18: the VALUES tuples of the statements merge returns are, as a multiset,
\* the VALUES tuples of its input statements, also for input statements that
\* carry several tuples.
C18_TuplesConserved ==
    Merged =>
        \A x \in Range(TuplesOf(InputView)) \cup Range(TuplesOf(merger.view)) :
            Count(TuplesOf(merger.view), x) = Count(TuplesOf(InputView), x)

\* C19: merge(merge(S)) = merge(S).
C19_MergeIdempotent ==
    merger.pc = "merged_again" =>
        /\ ~merger.again_raised
        /\ merger.again = merger.view

\* two statements are compatible by the rule of the claim: same table, and both
\* without a column list or both with column lists that are equal as sets
RuleCompatible(v1, v2) ==
    /\ v1.table = v2.table
    /\ ColumnSet(v1) = ColumnSet(v2)

\* C20: _are_compatible holds of two INSERT statements exactly if their tables
\* match and either both have no column list or both have column lists that are
\* equal as sets, case and quoting ignored.
C20_CompatibleIffSameTableAndColumnSet ==
    merger.compatible # None =>
        (merger.compatible[1] <=> RuleCompatible(InputView[1], InputView[2]))

\* two statements for the same table whose explicit column lists name the same
\* columns in a different order
Reordered(v1, v2) ==
    /\ v1.insert /\ v2.insert
    /\ v1.table = v2.table
    /\ v1.columns # None /\ v2.columns # None
    /\ ColumnSet(v1) = ColumnSet(v2)
    /\ ColumnList(v1) # ColumnList(v2)

\* the input statements a returned statement was made from
MadeFrom(view) == { i \in 1..Len(InputView) : InputView[i].tag[1] \in Range(view.tag) }

\* C21: merge of utils/insert_merger.py folds no two INSERTs for the same table
\* whose explicit column lists name the same columns in a different order into
\* one statement.
C21_ColumnOrderNotFolded ==
    (Merged /\ merger.impl = "utils.insert_merger") =>
        \A o \in 1..Len(merger.view) :
            \A i, j \in MadeFrom(merger.view[o]) :
                ~Reordered(InputView[i], InputView[j])

NonInserts(views) == SelectSeq(views, LAMBDA v : ~v.insert)

\* C22: merge, given well-formed INSERTs and at least one statement that is not
\* an INSERT, returns every non-INSERT statement once, unchanged and in input
\* order, after all the INSERT statements it returns.
C22_NonInsertsPassThrough ==
    (/\ merger.pc # "start"
     /\ \A i \in 1..Len(merger.statements) :
            merger.statements[i].form \in {"insert", "other"}
     /\ NonInserts(InputView) # <<>>) =>
        /\ ~merger.raised
        /\ NonInserts(merger.view) = NonInserts(InputView)
        /\ \A o1, o2 \in 1..Len(merger.view) :
              (merger.view[o1].insert /\ ~merger.view[o2].insert) => o1 < o2

\* an INSERT that is malformed: unbalanced parentheses, no VALUES clause, a
\* duplicate or invalid column name, an empty column list or an empty value list
MalformedInsert(ins) ==
    \/ ins.form \in {"unbalanced", "no_values"}
    \/ /\ ins.cols # None
       /\ LET names == [i \in 1..Len(ins.cols[1]) |-> lower(strip(ins.cols[1][i]))]
          IN \/ \E i \in 1..Len(names) : names[i] = "" \/ names[i] \in Blanked
             \/ \E i, j \in 1..Len(names) : i # j /\ names[i] = names[j]
    \/ \E r \in 1..Len(ins.rows) : ins.rows[r] = <<"">>

\* C23: merge of utils/insert_merger.py, given an input with at least one
\* malformed INSERT, raises InsertMergerError and returns no statement.
C23_MalformedInputRejected ==
    (/\ merger.pc # "start"
     /\ merger.impl = "utils.insert_merger"
     /\ \E i \in 1..Len(merger.statements) : MalformedInsert(merger.statements[i])) =>
        /\ merger.raised
        /\ merger.out = <<>>

----------------------------------------------------------------------------
(* Claims about the streaming interface of the mergers *)

TextOf(tag) == CHOOSE text \in StreamPool : text.tag = <<tag>>

\* the statements pending for a table before the last call
PendingBefore(table) ==
    LET tags == Pending(stream.impl, stream.last.before, table)
    IN [i \in 1..Len(tags) |-> ViewOfText(TextOf(tags[i]))]

\* the last call was add_statement of an INSERT for a table with pending
\* statements that have another column set
AddedIncompatible ==
    /\ stream.last.op = "add_statement"
    /\ stream.last.arg[1].form = "insert"
    /\ LET new == ViewOfText(stream.last.arg[1])
       IN /\ PendingBefore(new.table) # <<>>
          /\ ColumnSet(PendingBefore(new.table)[1]) # ColumnSet(new)

\* C24: add_statement of an INSERT that is incompatible with the pending group of
\* its table returns the merged form of that group (its statements and tuples,
\* and not the new statement), and the group then holds the new statement alone.
C24_IncompatibleFlushesGroup ==
    AddedIncompatible =>
        LET new == ViewOfText(stream.last.arg[1])
            pending == PendingBefore(new.table)
        IN /\ ~stream.last.raised
           /\ stream.last.ret # None
           /\ Flatten([i \in 1..Len(stream.last.ret[1]) |-> stream.last.ret[1][i].tag])
                 = Flatten([i \in 1..Len(pending) |-> pending[i].tag])
           /\ TuplesOf(stream.last.ret[1]) = TuplesOf(pending)
           /\ \A i \in 1..Len(stream.last.ret[1]) : stream.last.ret[1][i].table = new.table
           /\ Pending(stream.impl, stream.table_maps, new.table) = <<new.tag[1]>>

----------------------------------------------------------------------------
(* Claims about reset *)

\* the column count and adjustment factor a fresh batch derives from statement s
FreshDetection(s) ==
    update_adjustment_factor(cfg, BatcherState(<<>>, 0, None, <<1, 1>>), s)

\* reset was called, directly or at the end of a flush that executed a batch
AfterReset ==
    \/ call.op = "reset"
    \/ call.op = "flush" /\ ~call.raised /\ call.pre_batch # <<>>

\* an INSERT whose columns can be detected is the first statement of a batch
FirstInsertOfBatch ==
    /\ call.op = "add_statement"
    /\ call.pre_batch = <<>>
    /\ cfg.auto_adjust_for_columns
    /\ detect_column_count(call.input[1]) # None

\* C30: reset, called directly or at the end of flush, clears the batch, the
\* running size, the detected column count and the adjustment factor; the first
\* INSERT added after it has its columns detected and sets the adjustment factor
\* of the new batch.
C30_ResetClearsColumnDetection ==
    /\ AfterReset =>
          /\ current_batch = <<>>
          /\ current_size = 0
          /\ column_count = None
          /\ adjustment_factor = <<1, 1>>
    /\ FirstInsertOfBatch =>
          /\ column_count = FreshDetection(call.input[1]).cc
          /\ adjustment_factor = FreshDetection(call.input[1]).af

----------------------------------------------------------------------------
(* Claims about the synchronous and the asynchronous batcher side by side *)

BothRun == pair.sync.done /\ pair.async.done

\* C28: for the same configuration and the same statement list, with a callback
\* that never raises, SQLBatcher.process_statements and
\* AsyncSQLBatcher.process_statements hand the same sequence of payloads to the
\* callback and return the same count.
C28_SyncAsyncSameSemantics ==
    BothRun =>
        /\ pair.sync.payloads = pair.async.payloads
        /\ pair.sync.count = pair.async.count

\* C29: with a callback that never raises, process_statements of SQLBatcher and
\* of AsyncSQLBatcher returns the number of statements of its input list, also
\* when INSERT statements were merged before execution.
C29_CountIsInputLength ==
    /\ pair.sync.done => pair.sync.count = Len(pair.statements)
    /\ pair.async.done => pair.async.count = Len(pair.statements)

----------------------------------------------------------------------------
(* Claims about the savepoint scope *)

\* the number of calls of adapter method op made during the scope
ScopeCalls(op) == AdapterCalls(scope.adapter, op)

\* the number of calls of adapter method op with the scope's own name
ScopeCallsNamed(op) ==
    Cardinality({ k \in AdapterEvents(scope.adapter, op) :
                    scope.adapter[k].name = scope.name })

\* C25: a savepoint scope calls create_savepoint(name) exactly once on entry; left
\* without error it calls release_savepoint(name) exactly once and never
\* rollback_to_savepoint; left by an exception it calls
\* rollback_to_savepoint(name) exactly once, never release_savepoint, and raises
\* the exception again; also with process_statements run inside the scope.
C25_SavepointScope ==
    scope.pc = "exited" =>
        /\ ScopeCalls("create_savepoint") = 1
        /\ ScopeCallsNamed("create_savepoint") = 1
        /\ scope.adapter[1] = AdapterEv("create_savepoint", scope.name, TRUE)
        /\ ~scope.body_raised =>
              /\ ~scope.raised
              /\ ScopeCalls("release_savepoint") = 1
              /\ ScopeCallsNamed("release_savepoint") = 1
              /\ ScopeCalls("rollback_to_savepoint") = 0
        /\ scope.body_raised =>
              /\ scope.raised
              /\ ScopeCalls("rollback_to_savepoint") = 1
              /\ ScopeCallsNamed("rollback_to_savepoint") = 1
              /\ ScopeCalls("release_savepoint") = 0

----------------------------------------------------------------------------
(* Claims about two tasks on one AsyncSQLBatcher *)

\* C26: a statement added by another task while a flush is suspended at an await
\* is never removed by that flush's reset without having been passed to the
\* execution callback.
C26_FlushResetAtomic == conc.late \cap conc.lost = {}

\* two flush calls that were in progress at the same time passed the same
\* buffered statement to the callback
ExecutedTwice ==
    \E m, n \in 1..Len(conc.passed) :
        /\ conc.passed[m].flush # conc.passed[n].flush
        /\ {conc.passed[m].flush, conc.passed[n].flush} \in conc.overlaps
        /\ \E i \in 1..Len(conc.passed[m].tags), j \in 1..Len(conc.passed[n].tags) :
              conc.passed[m].tags[i] = conc.passed[n].tags[j]

\* C27: never are two invocations of the execution callback of one batcher in
\* flight, also with two tasks in flush at the same time, and no buffered
\* statement is executed by two overlapping flushes.
C27_OneExecutionAtATime ==
    /\ ~(\A k \in Tasks : conc.task[k].pc = "execute")
    /\ ~ExecutedTwice

----------------------------------------------------------------------------
(* Claims about the size ceiling and the adjustment factor *)

AsyncShouldFlushIffCeilingReached ==
    a_out.op = "add_statement" => (a_out.should_flush <=> SumBytes(a_batch) >= 64)

\* the statements of a batch whose column count can be detected, in batch order
Detectable(batch) == SelectSeq(batch, LAMBDA s : detect_column_count(s) # None)

\* clamp(reference_column_count / max(1, n), min_adjustment_factor, max_adjustment_factor)
ClampedFactor(n) ==
    RatMax(cfg.min_adjustment_factor,
           RatMin(cfg.max_adjustment_factor,
                  <<cfg.reference_column_count, IF n > 1 THEN n ELSE 1>>))

\* C32: with auto_adjust_for_columns on, the adjustment factor in force for a
\* batch is the clamped reference_column_count / max(1, count) of the first
\* INSERT of that batch whose column count can be detected, whatever was added
\* to the batch after it; and the factor is a quotient with a non-zero divisor.
C32_FactorFromFirstInsertOfBatch ==
    /\ adjustment_factor[2] # 0
    /\ (cfg.auto_adjust_for_columns /\ call.op = "add_statement"
          /\ Detectable(current_batch) # <<>>) =>
          LET first == Head(Detectable(current_batch)) IN
          /\ column_count = detect_column_count(first)
          /\ adjustment_factor = ClampedFactor(detect_column_count(first)[1])

----------------------------------------------------------------------------
(* Claims about the savepoint of a flush *)

\* the flush that has just returned or raised asked for its savepoint and the
\* adapter raised
CreateSavepointFailed ==
    /\ a_out.op = "flush"
    /\ \E k \in AdapterEvents(a_out.log, "create_savepoint") : ~a_out.log[k].ok

\* C33: flush creates the savepoint before it executes any statement of the
\* batch; if create_savepoint raises, it is not called a second time, no
\* statement is passed to the callback and flush raises that error.
C33_SavepointFirstAndNotRetried ==
    /\ \A log \in {a_flush.log, a_out.log} :
          \A j \in EventsAt(log, IsExecute) :
              \E k \in AdapterEvents(log, "create_savepoint") : k < j /\ log[k].ok
    /\ CreateSavepointFailed =>
          /\ AdapterCalls(a_out.log, "create_savepoint") = 1
          /\ EventsAt(a_out.log, IsExecute) = {}
          /\ a_out.status = "raised"
          /\ a_out.error = Some(<<"adapter", "create_savepoint">>)

\* the savepoint created at position k of the log is released or rolled back to
\* (the adapter is at least asked to) later in the log
Resolved(log, k) ==
    \E j \in (k + 1)..Len(log) :
        /\ log[j].e \in {"release_savepoint", "rollback_to_savepoint"}
        /\ log[j].name = log[k].name

\* C34: when flush returns or raises, every savepoint it created has been
\* released or rolled back, wherever the flush failed.
C34_SavepointResolvedWithinFlush ==
    a_out.op = "flush" =>
        \A k \in AdapterEvents(a_out.log, "create_savepoint") :
            a_out.log[k].ok => Resolved(a_out.log, k)

\* a flush attempt is under way and the batcher has made one before
FlushAttemptedAgain == a_flush.pc # "idle" /\ a_flush.after # <<>>

\* C35: no two flush attempts of one batcher use the same savepoint name, in
\* particular not the attempt that follows a failed flush of the same batch.
C35_SavepointNameUniquePerAttempt ==
    FlushAttemptedAgain => a_flush.savepoint # a_flush.after

----------------------------------------------------------------------------
(* Claims about hooks that rewrite statements *)

HooksAt(plugins, type) == SelectSeq(plugins, LAMBDA p : p.type = type)

\* the list after the in-place mutation of a hook of the kind (rebind makes none)
Mutated(kind, statements) ==
    CASE kind = "retable" ->
           [i \in 1..Len(statements) |->
              IF statements[i].table = Some("u")
              THEN [statements[i] EXCEPT !.table = Some("t")] ELSE statements[i]]
      [] kind = "reverse" ->
           [i \in 1..Len(statements) |-> statements[Len(statements) + 1 - i]]
      [] kind = "drop_first" -> SubSeq(statements, 2, Len(statements))
      [] OTHER -> statements

\* the list as the hooks leave it, each one mutating what the one before left
RECURSIVE LeftBy(_, _)
LeftBy(hooks, statements) ==
    IF hooks = <<>> THEN statements
    ELSE LeftBy(Tail(hooks), Mutated(Head(hooks).kind, statements))

\* the list a firing starts with
FiringInput(type) == IF type = "PRE_BATCH" THEN rw.input ELSE merge(rw.to_merge)

\* C36: statement rewrites made by hooks take effect: what flush merges is the
\* batch as the PRE_BATCH hooks' in-place mutations left it, what it passes to
\* the execution callback is the merged list as the PRE_EXECUTE hooks' in-place
\* mutations left it, and every hook is called with the list as the earlier
\* hooks of the same firing left it.
C36_HookRewritesTakeEffect ==
    (rw.pc = "done" /\ rw.input # <<>>) =>
        /\ rw.to_merge = LeftBy(HooksAt(rw.plugins, "PRE_BATCH"), rw.input)
        /\ rw.executed = LeftBy(HooksAt(rw.plugins, "PRE_EXECUTE"), merge(rw.to_merge))
        /\ \A j \in 1..Len(rw.seen) :
             rw.seen[j].statements =
                 LeftBy(HooksAt(SubSeq(rw.plugins, 1, rw.seen[j].plugin - 1),
                                rw.seen[j].type),
                        FiringInput(rw.seen[j].type))

\* a flush in which the second PRE_BATCH hook was called with a batch the first
\* had changed, the PRE_BATCH rewrites made the two statements of the batch one
\* merged statement, and a PRE_EXECUTE hook changed the merged list
C36_Witness ==
    /\ rw.pc = "done"
    /\ Len(rw.input) = 2 /\ Len(merge(rw.input)) = 2 /\ Len(merge(rw.to_merge)) = 1
    /\ Len(rw.seen) = 3
    /\ rw.seen[2].type = "PRE_BATCH" /\ rw.seen[2].statements # rw.input
    /\ rw.seen[3].type = "PRE_EXECUTE"
    /\ rw.executed # merge(rw.to_merge)

----------------------------------------------------------------------------
(* Claims about the `async with` block *)

\* the plugins whose hook of the type __aenter__ or __aexit__ called
Fired(type) == { ctx.log[k].id : k \in HookFirings(ctx.log, type) }

\* the names of the statements the flush of __aexit__ passed to adapter.execute
ExecutedNames ==
    Flatten([k \in 1..Len(a_out.log) |->
               IF IsExecute(a_out.log[k]) THEN a_out.log[k].stmts[1].tag ELSE <<>>])

PendingNames == Flatten([i \in 1..Len(ctx.pending) |-> ctx.pending[i].tag])

ExitFlush(status) == ctx.flushed /\ a_out.op = "flush" /\ a_out.status = status

BlockLeft ==
    /\ a_batch = <<>> /\ a_size = 0
    /\ Fired("POST_BATCH") = 1..a_plugins
    /\ ctx.pending = <<>> => ~ctx.flushed
    /\ ExitFlush("returned") =>
         \A i \in 1..Len(PendingNames) :
            Count(ExecutedNames, PendingNames[i]) = Count(PendingNames, PendingNames[i])
    /\ ExitFlush("raised") =>
         /\ Fired("ON_ERROR") = 1..a_plugins
         /\ ctx.status = "raised"
         /\ ctx.error = a_out.error

\* C37: leaving an `async with` block flushes the pending statements through
\* adapter.execute, each one executed once and nothing executed when the batch
\* is empty; whether or not that flush raises, the batch is empty afterwards and
\* the POST_BATCH cleanup hooks are fired, and when the flush raises the
\* ON_ERROR hooks are fired and the error of the flush propagates.
C37_ExitFlushesAndCleansUp == ctx.pc = "left" => BlockLeft

\* the same with no hook raising in __aexit__
ExitWithQuietHooks ==
    (ctx.pc = "left" /\ \A k \in 1..Len(ctx.log) : ctx.log[k].ok) => BlockLeft

----------------------------------------------------------------------------
(* Claims about dry-run mode *)

\* what the same run returns with dry_run off
NormalCount(run(_, _, _, _), start) ==
    run([pair.c EXCEPT !.dry_run = FALSE], start, pair.statements, 0).count

DryRun(side, normal) ==
    side.done => /\ side.payloads = <<>>
                 /\ side.batch = <<>>
                 /\ side.count = normal

\* SQLBatcher in dry-run mode: no callback invocation, batch reset, same count
SyncDryRun ==
    pair.c.dry_run =>
        DryRun(pair.sync, NormalCount(process_statements, BatcherState(<<>>, 0, None, <<1, 1>>)))

\* C38: in dry-run mode neither SQLBatcher nor AsyncSQLBatcher ever invokes the
\* execution callback while it processes statements and flushes; the batch is
\* still reset and the count returned is the one of normal mode.
C38_DryRunNeverInvokesCallback ==
    pair.c.dry_run =>
        /\ DryRun(pair.sync,
                  NormalCount(process_statements, BatcherState(<<>>, 0, None, <<1, 1>>)))
        /\ DryRun(pair.async,
                  NormalCount(async_process_statements, AsyncState(<<>>, 0, None, <<1, 1>>)))

----------------------------------------------------------------------------
(* Claims about the streaming merger over several calls *)

\* calls i..j of the history are add_statement calls of INSERTs the merger took
AddsOfInserts(h, i, j) ==
    \A k \in i..j : /\ h[k].op = "add_statement"
                    /\ h[k].arg[1].form = "insert"
                    /\ ~h[k].raised

\* the statements the calls returned, in order
ReturnedBy(h) ==
    Flatten([k \in 1..Len(h) |-> IF h[k].ret = None THEN <<>> ELSE h[k].ret[1]])

\* the VALUES tuples of the statements added
AddedTuples(h) ==
    Flatten([k \in 1..Len(h) |->
               IF h[k].op = "add_statement" THEN ViewOfText(h[k].arg[1]).rows ELSE <<>>])

ReturnedNothing(c) == c.ret = None \/ c.ret[1] = <<>>

\* add_statement calls of INSERTs, then flush_all
AddsThenFlushAll(h) ==
    /\ Len(h) >= 2
    /\ h[Len(h)].op = "flush_all"
    /\ AddsOfInserts(h, 1, Len(h) - 1)

Flushed(c, table) ==
    \/ c.op = "flush_all"
    \/ c.op = "flush_table" /\ c.arg[1] = table

\* C40: a table group is destroyed on flush: after flush_table(t) or flush_all
\* table_maps holds no state of the flushed group, and the next INSERT for t,
\* whatever its column list, is buffered as the first statement of a new group
\* and not returned.
C40_GroupDestroyedOnFlush ==
    LET h == stream.history
        n == Len(h)
    IN /\ \A table \in StreamTables :
            (n >= 1 /\ Flushed(h[n], table)) => entry_of(stream.table_maps, table) = 0
       /\ \A table \in StreamTables :
            (/\ n >= 2 /\ Flushed(h[n - 1], table)
             /\ AddsOfInserts(h, n, n) /\ h[n].arg[1].table = table) =>
                /\ ReturnedNothing(h[n])
                /\ Pending(stream.impl, stream.table_maps, table) = <<h[n].arg[1].tag[1]>>

\* the second half of C40 alone: the next INSERT after a flush is buffered
BufferedAfterFlush ==
    LET h == stream.history
        n == Len(h)
    IN \A table \in StreamTables :
            (/\ n >= 2 /\ Flushed(h[n - 1], table)
             /\ AddsOfInserts(h, n, n) /\ h[n].arg[1].table = table) =>
                /\ ReturnedNothing(h[n])
                /\ Pending(stream.impl, stream.table_maps, table) = <<h[n].arg[1].tag[1]>>

====
